---- MODULE Spec2Model ----
(***************************************************************************)
(* Model of the CNC-MelodyMaker note-to-motion engine.                     *)
(*                                                                         *)
(*   profiles/x_carve.py      XCarve: planner, command queue, serial       *)
(*                            worker and the GRBL line protocol            *)
(*   profiles/virtual_cnc.py  VirtualCNC: the simulated machine            *)
(*                                                                         *)
(* Units.  Times are whole seconds.  Feed rates are mm/min.  Distances and *)
(* positions are counted in 1/SecondsPerMinute mm, so that the source's    *)
(* note_feed_rate * (interval_duration / 60.0) is the exact integer        *)
(* product feed * duration.  The two places where the source leaves the    *)
(* rationals (math.sqrt and the division in the combined feed rate) are    *)
(* rounded down to the unit.                                               *)
(***************************************************************************)
EXTENDS Integers, Sequences, FiniteSets, TLC

VARIABLES
    notes,              \* the note list handed to play_notes
    axis_positions,     \* self.axis_positions
    direction,          \* VirtualCNC: self.direction
    ser_open,           \* XCarve: self.ser.is_open
    lock,               \* self.lock: the thread holding it, or "none"
    command_queue,      \* self.command_queue
    stop_event,         \* self.stop_event
    running,            \* VirtualCNC: self.running
    mpc,                \* position of the thread that runs play_notes
    idx,                \* play_notes: index of the interval being processed
    slice,              \* play_notes: locals of the interval being processed
    movement_command,   \* play_notes: the command built for the interval
    wpc,                \* position of the serial_worker thread
    command,            \* serial_worker: the command it dequeued
    response,           \* serial_worker: what send_gcode returned to it
    sg,                 \* per thread: its send_gcode activation
    upc,                \* VirtualCNC.run: position of the window thread
    plays,              \* number of play_notes calls started
    faults,             \* number of transport I/O faults so far
    enqueued,           \* history: commands put on command_queue, in order
    passed,             \* history: commands the worker handed to send_gcode
    wire,               \* history: the line last written to the serial link
    answered,           \* history: worker commands answered by the controller
    lastRaw,            \* history: per thread, the last raw line it read
    wraised,            \* history: times send_gcode raised in the worker
    applied,            \* VirtualCNC history: commands whose move was applied
    now                 \* time.time() - self.play_notes_start_time, in s

vars == <<notes, axis_positions, direction, ser_open, lock, command_queue,
          stop_event, running, mpc, idx, slice, movement_command, wpc,
          command, response, sg, upc, plays, faults, enqueued, passed, wire,
          answered, lastRaw, wraised, applied, now>>

----------------------------------------------------------------------------
(* Bounds of the model *)

MaxPlays == 2       \* play_notes calls per connection
MaxFaults == 1      \* injected transport I/O faults per run
LongLen == 17       \* notes of the long song (two more than the queue limit)
MaxNotes == 2       \* notes per list in the planner specification
MaxStart == 2       \* latest start_time in the planner specification
MaxDuration == 2    \* longest duration in the planner specification
MaxLate == 2        \* seconds play_notes may lag behind an interval's start

(* Program constants *)

SecondsPerMinute == 60
MmPerStepNum == 375         \* mm_per_step = 0.0375 = 375 / 10000
MmPerStepDen == 10000
max_feed_rate == 8000
QueueLimit == 15
StartMm == 100
CenterMm == 100
MaxTravelMm == 50
VStartMm == 0
Bound1Mm == 100
Bound2Mm == 300
BedMm == 750
AccelerationMmS2 == 1000

Axes == {"X", "Y"}
Threads == {"main", "worker"}

Mm(x) == x * SecondsPerMinute

center_position == [a \in Axes |-> Mm(CenterMm)]
max_travel == [a \in Axes |-> Mm(MaxTravelMm)]
working_bound_1 == [a \in Axes |-> Mm(Bound1Mm)]
working_bound_2 == [a \in Axes |-> Mm(Bound2Mm)]

\* min(acceleration_settings.values()) of the settings that
\* get_acceleration_settings returns
max_acceleration == AccelerationMmS2

----------------------------------------------------------------------------
(* Arithmetic helpers *)

Abs(x) == IF x < 0 THEN -x ELSE x

Max2(a, b) == IF a >= b THEN a ELSE b

Min2(a, b) == IF a <= b THEN a ELSE b

RECURSIVE SqrtSearch(_, _, _)
SqrtSearch(n, lo, hi) ==
    IF lo >= hi THEN lo
    ELSE LET mid == (lo + hi + 1) \div 2
         IN  IF mid * mid <= n THEN SqrtSearch(n, mid, hi)
             ELSE SqrtSearch(n, lo, mid - 1)

\* math.sqrt, rounded down to the unit
\* the root rounded upwards past the exact value
ISqrt_above(n) == SqrtSearch(n, 0, 46340) + 1

ISqrt(n) == SqrtSearch(n, 0, 46340)

\* round(n / m) for m > 0, half away from zero
RoundDiv(n, m) ==
    IF n >= 0 THEN (2 * n + m) \div (2 * m) ELSE -((2 * (-n) + m) \div (2 * m))

\* the event times in descending order
RECURSIVE SortedSeq_descending(_)
SortedSeq_descending(S) ==
    IF S = {} THEN <<>>
    ELSE LET m == CHOOSE x \in S : \A y \in S : x >= y
         IN  <<m>> \o SortedSeq_descending(S \ {m})

\* sorted(event_times)
RECURSIVE SortedSeq(_)
SortedSeq(S) ==
    IF S = {} THEN <<>>
    ELSE LET m == CHOOSE x \in S : \A y \in S : x <= y
         IN  <<m>> \o SortedSeq(S \ {m})

IsPrefix(s, t) == Len(s) <= Len(t) /\ \A i \in 1..Len(s) : s[i] = t[i]

----------------------------------------------------------------------------
(* Notes *)

\* a note dict; its key 'note' (the name, only printed) is left out
Note(a, f, s, d) ==
    [axis |-> a, frequency |-> f, start_time |-> s, duration |-> d]

Frequencies == {0, 440, 4000}

\* note[key] raises KeyError for some key of keys
Lacks(note, keys) == ~(keys \subseteq DOMAIN note)

----------------------------------------------------------------------------
(* XCarve: the planner (x_carve.py) *)

calculate_feed_rate(frequency) ==
    (frequency * MmPerStepNum * SecondsPerMinute) \div MmPerStepDen

\* from the center always towards the upper end
choose_direction_upward(pos, axis, movement_distance) ==
    IF pos[axis] > center_position[axis] THEN -1 ELSE 1

choose_direction(pos, axis, movement_distance) ==
    IF pos[axis] > center_position[axis] THEN -1
    ELSE IF pos[axis] < center_position[axis] THEN 1
    ELSE IF pos[axis] + movement_distance
              <= center_position[axis] + max_travel[axis] THEN 1
    ELSE -1

\* the travel check left out
adjust_movement_distance_unclamped(pos, axis, desired_distance) ==
    desired_distance

\* only the upper end of the travel range checked
adjust_movement_distance_upper(pos, axis, desired_distance) ==
    LET new_position == pos[axis] + desired_distance
    IN  IF new_position > center_position[axis] + max_travel[axis]
        THEN (center_position[axis] + max_travel[axis]) - pos[axis]
        ELSE desired_distance

adjust_movement_distance(pos, axis, desired_distance) ==
    LET new_position == pos[axis] + desired_distance
    IN  IF new_position > center_position[axis] + max_travel[axis]
        THEN (center_position[axis] + max_travel[axis]) - pos[axis]
        ELSE IF new_position < center_position[axis] - max_travel[axis]
        THEN (center_position[axis] - max_travel[axis]) - pos[axis]
        ELSE desired_distance

EventTimes(ns) ==
    {ns[i].start_time : i \in 1..Len(ns)}
        \cup {ns[i].start_time + ns[i].duration : i \in 1..Len(ns)}

Intervals(ns) ==
    LET event_times == SortedSeq(EventTimes(ns))
    IN  [i \in 1..(Len(event_times) - 1) |->
            <<event_times[i], event_times[i + 1]>>]

\* the overlap test with the end points included
IsActive_closed(note, interval_start, interval_end) ==
    /\ note.start_time <= interval_end
    /\ note.start_time + note.duration >= interval_start

\* lines 267-269: the note overlaps the interval
IsActive(note, interval_start, interval_end) ==
    /\ note.start_time < interval_end
    /\ note.start_time + note.duration > interval_start

ActiveNotes(ns, interval_start, interval_end) ==
    SelectSeq(ns, LAMBDA n : IsActive(n, interval_start, interval_end))

\* the dicts distances and required_feed_rates: order is the insertion order
\* of the keys, d and req are meaningful on the keys only
NoMoves ==
    [order |-> <<>>, d |-> [a \in Axes |-> 0], req |-> [a \in Axes |-> 0]]

Keys(m) == {m.order[i] : i \in 1..Len(m.order)}

\* the rate of the note with the test against max_feed_rate left out
NoteFeedRate_unlimited(note) == calculate_feed_rate(note.frequency)

\* lines 283-289: the feed rate of the note, set to max_feed_rate when above
NoteFeedRate(note) == Min2(calculate_feed_rate(note.frequency), max_feed_rate)

\* the local note_distance of the loop, per axis, before the direction and
\* the travel check
NoDistances == [a \in Axes |-> 0]

\* one pass of the loop over active_notes:
\* st = [pos, moves, note_distance, raised]
PlanNote(st, note, interval_duration) ==
    LET axis == note.axis
        note_feed_rate == NoteFeedRate(note)
        note_distance == note_feed_rate * interval_duration
        dir == choose_direction(st.pos, axis, note_distance)
        adjusted_distance ==
            adjust_movement_distance(st.pos, axis, note_distance * dir)
    IN  [pos |-> [st.pos EXCEPT ![axis] = @ + adjusted_distance],
         moves |->
            [order |-> IF axis \in Keys(st.moves) THEN st.moves.order
                       ELSE Append(st.moves.order, axis),
             d |-> [st.moves.d EXCEPT ![axis] = adjusted_distance],
             req |-> [st.moves.req EXCEPT ![axis] = note_feed_rate]],
         note_distance |->
            [st.note_distance EXCEPT ![axis] = note_distance],
         raised |-> FALSE]

\* lines 281-282: note['axis'] and note['frequency'] at the top of a pass
NoteRaises(note) == Lacks(note, {"axis", "frequency"})

\* the loop over active_notes; a KeyError ends it with the position
\* updates of the earlier passes made
RECURSIVE NoteLoop(_, _, _, _)
NoteLoop(st, active_notes, k, interval_duration) ==
    IF k > Len(active_notes) THEN st
    ELSE IF NoteRaises(active_notes[k]) THEN [st EXCEPT !.raised = TRUE]
    ELSE NoteLoop(PlanNote(st, active_notes[k], interval_duration),
                  active_notes, k + 1, interval_duration)

RECURSIVE SumSquares(_, _)
SumSquares(m, S) ==
    IF S = {} THEN 0
    ELSE LET a == CHOOSE x \in S : TRUE
         IN  m.d[a] * m.d[a] + SumSquares(m, S \ {a})

TotalDistance(m) == ISqrt(SumSquares(m, Keys(m)))

\* the least of the rates in place of the greatest
SetMax_least(S) == CHOOSE x \in S : \A y \in S : x <= y

SetMax(S) == CHOOSE x \in S : \A y \in S : y <= x

calculate_combined_feed_rate(m) ==
    LET total_distance == TotalDistance(m)
        combined_feed_rates ==
            {(m.req[a] * total_distance) \div Abs(m.d[a]) :
                a \in {b \in Keys(m) : m.d[b] # 0}}
    IN  IF combined_feed_rates = {} THEN 0 ELSE SetMax(combined_feed_rates)

\* f"{x:.4f}" of a distance: the value in 1/10000 mm
Fmt4(d) == RoundDiv(d * 10000, SecondsPerMinute)

\* "G1 <axis><distance>... F<feed>"; F is kept in whole mm/min
FormatCommand(m, combined_feed_rate) ==
    [text |-> "G1",
     moves |-> [i \in 1..Len(m.order) |->
                    [axis |-> m.order[i], val |-> Fmt4(m.d[m.order[i]])]],
     F |-> combined_feed_rate]

\* calculate_movement_time divides by feed_rate / 60.0 on the trapezoidal
\* branch, which is the branch taken when the feed rate is 0
MovementTimeRaises(m, feed_rate) == feed_rate = 0

\* calculate_movement_time where it returns, in whole seconds rounded down:
\* the triangular profile 2 * sqrt(total / a), or the trapezoidal profile
\* 2 * t_accel + d_constant / v, which is total / v + v / a
calculate_movement_time(m, feed_rate) ==
    LET total_distance == TotalDistance(m)
        per_s == SecondsPerMinute * max_acceleration
    IN  IF total_distance * per_s < feed_rate * feed_rate
        THEN ISqrt((4 * total_distance) \div per_s)
        ELSE (total_distance * per_s + feed_rate * feed_rate)
                \div (per_s * feed_rate)

\* no wait before an interval
WaitUntil_none(elapsed_time, interval_start) == elapsed_time

\* lines 258-262: the elapsed time after the wait for interval_start
WaitUntil(elapsed_time, interval_start) ==
    LET wait_time == interval_start - elapsed_time
    IN  IF wait_time > 0 THEN elapsed_time + wait_time ELSE elapsed_time

\* an interval whose start has passed is passed over as well
SkipsInterval_late(interval_duration, active_notes, wait_time) ==
    interval_duration <= 0 \/ active_notes = <<>> \/ wait_time < 0

\* lines 253-254 and 272-273: the two continue statements of the loop
SkipsInterval(interval_duration, active_notes, wait_time) ==
    interval_duration <= 0 \/ active_notes = <<>>

\* the body of the loop over intervals for interval i, from position pos
PlanInterval(pos, ns, i) ==
    LET interval_start == Intervals(ns)[i][1]
        interval_end == Intervals(ns)[i][2]
        interval_duration == interval_end - interval_start
        active_notes == ActiveNotes(ns, interval_start, interval_end)
        st == NoteLoop([pos |-> pos, moves |-> NoMoves,
                        note_distance |-> NoDistances, raised |-> FALSE],
                       active_notes, 1, interval_duration)
        combined_feed_rate == calculate_combined_feed_rate(st.moves)
    IN  [active |-> active_notes,
         dur |-> interval_duration,
         pos |-> st.pos,
         moves |-> st.moves,
         note_distance |-> st.note_distance,
         raised |-> st.raised,
         feed |-> combined_feed_rate,
         cmd |-> FormatCommand(st.moves, combined_feed_rate)]

NoSlice ==
    [moves |-> NoMoves, feed |-> 0, dur |-> 0, note_distance |-> NoDistances]

\* the commands that are not moves: "$$", "G91", "$H"
Plain(text) == [text |-> text, moves |-> <<>>, F |-> 0]

NoCommand == Plain("")

Idle == [pc |-> "idle", command |-> NoCommand, grbl_out |-> <<>>]

----------------------------------------------------------------------------
(* The GRBL line protocol.  A line is the sequence of its characters. *)

WhiteSpace == {" ", "\r", "\n", "\t"}

RECURSIVE LStrip(_)
LStrip(l) ==
    IF l # <<>> /\ Head(l) \in WhiteSpace THEN LStrip(Tail(l)) ELSE l

RECURSIVE RStrip(_)
RStrip(l) ==
    IF l # <<>> /\ l[Len(l)] \in WhiteSpace
    THEN RStrip(SubSeq(l, 1, Len(l) - 1)) ELSE l

\* str.strip()
Strip(l) == RStrip(LStrip(l))

\* str.startswith(prefix)
StartsWith(l, prefix) ==
    Len(l) >= Len(prefix) /\ SubSeq(l, 1, Len(prefix)) = prefix

EOL == <<"\r", "\n">>
S_ok == <<"o", "k">>
S_error == <<"e", "r", "r", "o", "r">>
S_ALARM == <<"A", "L", "A", "R", "M">>
S_Grbl == <<"G", "r", "b", "l">>

\* what ser.readline().decode() can yield: a timeout (empty), a blank line,
\* the four terminal classes and a line that only resembles one
ControllerLines ==
    { <<>>,
      EOL,
      S_ok \o EOL,
      S_error \o <<":", "2">> \o EOL,
      S_ALARM \o <<":", "1">> \o EOL,
      S_Grbl \o <<" ", "1">> \o EOL,
      S_ok \o <<"a", "y">> \o EOL }

\* 'ok' tested as a prefix, like the other three classes
EndsReadLoop_prefix(grbl_out) ==
    \/ StartsWith(grbl_out, S_ok)
    \/ StartsWith(grbl_out, S_error)
    \/ StartsWith(grbl_out, S_ALARM)
    \/ StartsWith(grbl_out, S_Grbl)

\* the chain of tests that ends the read loop of send_gcode
EndsReadLoop(grbl_out) ==
    \/ grbl_out = S_ok
    \/ StartsWith(grbl_out, S_error)
    \/ StartsWith(grbl_out, S_ALARM)
    \/ StartsWith(grbl_out, S_Grbl)

----------------------------------------------------------------------------
(* XCarve: the machine (x_carve.py) *)

virtVars == <<direction, running, upc, applied>>
planVars == <<notes, axis_positions, idx, slice, movement_command, now>>
workVars == <<wpc, command, response>>

\* send_gcode without the lock
LockFree_ignored(t) == TRUE

\* with self.lock: the lock can be taken
LockFree(t) == lock = "none"

\* a last in, first out read of the queue
QueueFront_last(q) == q[Len(q)]

\* queue.Queue is first in, first out
QueueFront(q) == Head(q)

QueueRest(q) == Tail(q)

\* the size test off by one
QueueHasRoom_late(q) == ~(Len(q) > QueueLimit)

\* while self.command_queue.qsize() >= 15: the loop is left
QueueHasRoom(q) == ~(Len(q) >= QueueLimit)

\* an error response treated like a raised exception
AfterResponse_halt(resp, stop) == stop \/ StartsWith(resp, S_error)

\* serial_worker after send_gcode returned: an error response is printed,
\* the stop flag stays as it is
AfterResponse(resp, stop) == stop

Call(t, cmd) ==
    [sg EXCEPT ![t] = [pc |-> "lock", command |-> cmd, grbl_out |-> <<>>]]

Songs ==
    { <<Note("X", 440, 0, 1)>>,
      <<Note("X", 4000, 0, 1), Note("Y", 440, 0, 2)>>,
      <<Note("X", 0, 0, 1), Note("Y", 440, 1, 1)>>,
      <<Note("X", 440, 0, 1), Note("Y", 440, 2, 1)>>,
      [i \in 1..LongLen |-> Note("X", 440, i - 1, 1)] }

Init ==
    /\ notes \in Songs
    /\ axis_positions = [a \in Axes |-> Mm(StartMm)]
    /\ ser_open = FALSE
    /\ lock = "none"
    /\ command_queue = <<>>
    /\ stop_event = FALSE
    /\ mpc = "connect"
    /\ idx = 0
    /\ slice = NoSlice
    /\ movement_command = NoCommand
    /\ wpc = "none"
    /\ command = NoCommand
    /\ response = <<>>
    /\ sg = [t \in Threads |-> Idle]
    /\ plays = 0
    /\ faults = 0
    /\ enqueued = <<>>
    /\ passed = <<>>
    /\ wire = NoCommand
    /\ answered = 0
    /\ lastRaw = [t \in Threads |-> <<>>]
    /\ wraised = 0
    /\ direction = [a \in Axes |-> 1]
    /\ running = FALSE
    /\ upc = "none"
    /\ applied = 0
    /\ now = 0

\* connect: the port opens, the worker thread is started, GRBL is woken up
Connect ==
    /\ mpc = "connect"
    /\ ser_open' = TRUE
    /\ wpc' = "loop"
    /\ wire' = Plain("wake")
    /\ mpc' = "initialize"
    /\ UNCHANGED <<planVars, virtVars, lock, command_queue, stop_event,
                   command, response, sg, plays, faults, enqueued, passed,
                   answered, lastRaw, wraised>>

\* connect: no port chosen, or serial.Serial raises SerialException
ConnectFails ==
    /\ mpc = "connect"
    /\ mpc' = "done"
    /\ UNCHANGED <<planVars, virtVars, workVars, ser_open, lock,
                   command_queue, stop_event, sg, plays, faults, enqueued,
                   passed, wire, answered, lastRaw, wraised>>

\* initialize: the homing question, then "$H" or directly "G91"
Initialize(homing_cycle) ==
    /\ mpc = "initialize"
    /\ IF homing_cycle
       THEN sg' = Call("main", Plain("$H")) /\ mpc' = "homing"
       ELSE sg' = Call("main", Plain("G91")) /\ mpc' = "g91"
    /\ UNCHANGED <<planVars, virtVars, workVars, ser_open, lock,
                   command_queue, stop_event, plays, faults, enqueued,
                   passed, wire, answered, lastRaw, wraised>>

\* after the homing cycle play_notes may start at once: no "G91"
InitializeHomed_nog91 ==
    /\ mpc = "homing"
    /\ sg["main"].pc = "returned"
    /\ sg' = [sg EXCEPT !["main"] = Idle]
    /\ mpc' = "ready"
    /\ lastRaw' = [lastRaw EXCEPT !["main"] = <<>>]
    /\ UNCHANGED <<planVars, virtVars, workVars, ser_open, lock,
                   command_queue, stop_event, plays, faults, enqueued,
                   passed, wire, answered, wraised>>

\* lines 103-109: "$H" has returned, the sleep, then "G91"
InitializeHomed ==
    /\ mpc = "homing"
    /\ sg["main"].pc = "returned"
    /\ sg' = Call("main", Plain("G91"))
    /\ mpc' = "g91"
    /\ lastRaw' = [lastRaw EXCEPT !["main"] = <<>>]
    /\ UNCHANGED <<planVars, virtVars, workVars, ser_open, lock,
                   command_queue, stop_event, plays, faults, enqueued,
                   passed, wire, answered, wraised>>

InitializeDone ==
    /\ mpc = "g91"
    /\ sg["main"].pc = "returned"
    /\ sg' = [sg EXCEPT !["main"] = Idle]
    /\ mpc' = "ready"
    /\ lastRaw' = [lastRaw EXCEPT !["main"] = <<>>]
    /\ UNCHANGED <<planVars, virtVars, workVars, ser_open, lock,
                   command_queue, stop_event, plays, faults, enqueued,
                   passed, wire, answered, wraised>>

\* an exception leaves initialize or play_notes: send_gcode re-raised
MainRaised ==
    /\ mpc \in {"homing", "g91", "accel"}
    /\ sg["main"].pc = "raised"
    /\ sg' = [sg EXCEPT !["main"] = Idle]
    /\ mpc' = "failed"
    /\ lastRaw' = [lastRaw EXCEPT !["main"] = <<>>]
    /\ UNCHANGED <<planVars, virtVars, workVars, ser_open, lock,
                   command_queue, stop_event, plays, faults, enqueued,
                   passed, wire, answered, wraised>>

\* play_notes, lines 235-237: get_acceleration_settings sends "$$"
PlayStart ==
    /\ mpc = "ready"
    /\ plays < MaxPlays
    /\ plays' = plays + 1
    /\ sg' = Call("main", Plain("$$"))
    /\ mpc' = "accel"
    /\ now' = 0
    /\ UNCHANGED <<notes, axis_positions, idx, slice, movement_command,
                   virtVars, workVars, ser_open, lock,
                   command_queue, stop_event, faults, enqueued, passed, wire,
                   answered, lastRaw, wraised>>

\* lines 241-243: note['start_time'] and note['duration'] of every note
BuildRaises(ns) ==
    \E i \in 1..Len(ns) : Lacks(ns[i], {"start_time", "duration"})

\* lines 239-249: the event times and the intervals, or the KeyError of a
\* note without start_time or duration
PlayBuild ==
    /\ mpc = "accel"
    /\ sg["main"].pc = "returned"
    /\ sg' = [sg EXCEPT !["main"] = Idle]
    /\ IF BuildRaises(notes)
       THEN mpc' = "failed" /\ idx' = idx
       ELSE mpc' = "slice" /\ idx' = 1
    /\ lastRaw' = [lastRaw EXCEPT !["main"] = <<>>]
    /\ UNCHANGED <<now, notes, axis_positions, slice, movement_command, virtVars,
                   workVars, ser_open, lock, command_queue, stop_event, plays,
                   faults, enqueued, passed, wire, answered, wraised>>

\* lines 252-273: an interval without active notes is passed over
SliceSkip ==
    /\ mpc = "slice"
    /\ idx <= Len(Intervals(notes))
    /\ LET p == PlanInterval(axis_positions, notes, idx)
       IN  SkipsInterval(p.dur, p.active, Intervals(notes)[idx][1] - now)
    /\ now' = WaitUntil(now, Intervals(notes)[idx][1])
    /\ idx' = idx + 1
    /\ UNCHANGED <<notes, axis_positions, slice, movement_command, virtVars,
                   workVars, ser_open, lock, command_queue, stop_event, mpc,
                   sg, plays, faults, enqueued, passed, wire, answered,
                   lastRaw, wraised>>

\* lines 275-314: the moves of the interval and its command
SliceMove ==
    /\ mpc = "slice"
    /\ idx <= Len(Intervals(notes))
    /\ LET p == PlanInterval(axis_positions, notes, idx)
       IN  /\ ~SkipsInterval(p.dur, p.active,
                              Intervals(notes)[idx][1] - now)
           /\ axis_positions' = p.pos
           /\ IF p.raised
              THEN /\ mpc' = "failed"
                   /\ UNCHANGED <<slice, movement_command>>
              ELSE /\ mpc' = "qwait"
                   /\ slice' = [moves |-> p.moves, feed |-> p.feed,
                                dur |-> p.dur,
                                note_distance |-> p.note_distance]
                   /\ movement_command' = p.cmd
    /\ now' = WaitUntil(now, Intervals(notes)[idx][1])
    /\ UNCHANGED <<notes, idx, virtVars, workVars, ser_open, lock,
                   command_queue, stop_event, sg, plays, faults, enqueued,
                   passed, wire, answered, lastRaw, wraised>>

\* lines 317-318: the queue is full, sleep 0.1 s
QueueFull ==
    /\ mpc = "qwait"
    /\ ~QueueHasRoom(command_queue)
    /\ mpc' = "qsleep"
    /\ UNCHANGED <<planVars, virtVars, workVars, ser_open, lock,
                   command_queue, stop_event, sg, plays, faults, enqueued,
                   passed, wire, answered, lastRaw, wraised>>

QueueRecheck ==
    /\ mpc = "qsleep"
    /\ mpc' = "qwait"
    /\ UNCHANGED <<planVars, virtVars, workVars, ser_open, lock,
                   command_queue, stop_event, sg, plays, faults, enqueued,
                   passed, wire, answered, lastRaw, wraised>>

\* lines 317-320: the loop is left and the command is put
QueuePut ==
    /\ mpc = "qwait"
    /\ QueueHasRoom(command_queue)
    /\ command_queue' = Append(command_queue, movement_command)
    /\ enqueued' = Append(enqueued, movement_command)
    /\ mpc' = "sleep"
    /\ UNCHANGED <<planVars, virtVars, workVars, ser_open, lock, stop_event,
                   sg, plays, faults, passed, wire, answered, lastRaw,
                   wraised>>

\* lines 322-326: the pacing sleep, or the ZeroDivisionError that ends
\* play_notes
Pace ==
    /\ mpc = "sleep"
    /\ IF MovementTimeRaises(slice.moves, slice.feed)
       THEN mpc' = "failed" /\ idx' = idx /\ now' = now
       ELSE /\ mpc' = "slice"
            /\ idx' = idx + 1
            /\ now' = now + calculate_movement_time(slice.moves, slice.feed)
    /\ UNCHANGED <<notes, axis_positions, slice, movement_command, virtVars,
                   workVars, ser_open, lock, command_queue, stop_event, sg,
                   plays, faults, enqueued, passed, wire, answered, lastRaw,
                   wraised>>

\* the loop over the intervals ends and play_notes returns
PlayReturn ==
    /\ mpc = "slice"
    /\ idx > Len(Intervals(notes))
    /\ mpc' = "ready"
    /\ UNCHANGED <<planVars, virtVars, workVars, ser_open, lock,
                   command_queue, stop_event, sg, plays, faults, enqueued,
                   passed, wire, answered, lastRaw, wraised>>

\* disconnect, line 97: the port is open and is closed
DisconnectClose ==
    /\ mpc \in {"ready", "failed"}
    /\ ser_open
    /\ ser_open' = FALSE
    /\ mpc' = "closed"
    /\ UNCHANGED <<planVars, virtVars, workVars, lock, command_queue,
                   stop_event, sg, plays, faults, enqueued, passed, wire,
                   answered, lastRaw, wraised>>

\* disconnect without line 98
DisconnectSet_noflag ==
    /\ mpc = "closed"
    /\ mpc' = "done"
    /\ UNCHANGED <<planVars, virtVars, workVars, ser_open, lock,
                   command_queue, stop_event, sg, plays, faults, enqueued,
                   passed, wire, answered, lastRaw, wraised>>

\* disconnect, line 98
DisconnectSet ==
    /\ mpc = "closed"
    /\ stop_event' = TRUE
    /\ mpc' = "done"
    /\ UNCHANGED <<planVars, virtVars, workVars, ser_open, lock,
                   command_queue, sg, plays, faults, enqueued, passed, wire,
                   answered, lastRaw, wraised>>

(* send_gcode, run by thread t *)

\* line 112: with self.lock
SgAcquire(t) ==
    /\ sg[t].pc = "lock"
    /\ LockFree(t)
    /\ lock' = t
    /\ sg' = [sg EXCEPT ![t].pc = "write"]
    /\ UNCHANGED <<planVars, virtVars, workVars, ser_open, command_queue,
                   stop_event, mpc, plays, faults, enqueued, passed, wire,
                   answered, lastRaw, wraised>>

\* lines 114-115: the command line is written
SgWrite(t) ==
    /\ sg[t].pc = "write"
    /\ ser_open
    /\ wire' = sg[t].command
    /\ sg' = [sg EXCEPT ![t].pc = "read"]
    /\ UNCHANGED <<planVars, virtVars, workVars, ser_open, lock,
                   command_queue, stop_event, mpc, plays, faults, enqueued,
                   passed, answered, lastRaw, wraised>>

\* lines 117-131: one line is read, stripped and classified
SgReadline(t, line) ==
    /\ sg[t].pc = "read"
    /\ ser_open
    /\ lastRaw' = [lastRaw EXCEPT ![t] = line]
    /\ LET grbl_out == Strip(line)
       IN  sg' = [sg EXCEPT ![t].grbl_out = grbl_out,
                            ![t].pc = IF grbl_out = <<>> THEN "read"
                                      ELSE IF EndsReadLoop(grbl_out)
                                      THEN "ret" ELSE "read"]
    /\ UNCHANGED <<planVars, virtVars, workVars, ser_open, lock,
                   command_queue, stop_event, mpc, plays, faults, enqueued,
                   passed, wire, answered, wraised>>

\* lines 133-135: ser.write or ser.readline raises (the port is closed, or
\* the link fails); the exception is re-raised and the lock released
SgRaise(t) ==
    /\ sg[t].pc \in {"write", "read"}
    /\ \/ ~ser_open /\ faults' = faults
       \/ ser_open /\ faults < MaxFaults /\ faults' = faults + 1
    /\ lock' = "none"
    /\ sg' = [sg EXCEPT ![t].pc = "raised"]
    /\ UNCHANGED <<planVars, virtVars, workVars, ser_open, command_queue,
                   stop_event, mpc, plays, enqueued, passed, wire, answered,
                   lastRaw, wraised>>

\* line 132: return grbl_out, the lock is released
SgReturn(t) ==
    /\ sg[t].pc = "ret"
    /\ lock' = "none"
    /\ sg' = [sg EXCEPT ![t].pc = "returned"]
    /\ UNCHANGED <<planVars, virtVars, workVars, ser_open, command_queue,
                   stop_event, mpc, plays, faults, enqueued, passed, wire,
                   answered, lastRaw, wraised>>

(* serial_worker *)

\* line 139: the loop condition
WorkerLoop ==
    /\ wpc = "loop"
    /\ wpc' = IF ~stop_event \/ command_queue # <<>> THEN "get" ELSE "exit"
    /\ UNCHANGED <<planVars, virtVars, command, response, ser_open, lock,
                   command_queue, stop_event, mpc, sg, plays, faults,
                   enqueued, passed, wire, answered, lastRaw, wraised>>

\* lines 141-142: a command is dequeued and handed to send_gcode
WorkerGet ==
    /\ wpc = "get"
    /\ command_queue # <<>>
    /\ command' = QueueFront(command_queue)
    /\ command_queue' = QueueRest(command_queue)
    /\ passed' = Append(passed, QueueFront(command_queue))
    /\ sg' = Call("worker", QueueFront(command_queue))
    /\ wpc' = "send"
    /\ UNCHANGED <<planVars, virtVars, response, ser_open, lock, stop_event,
                   mpc, plays, faults, enqueued, wire, answered, lastRaw,
                   wraised>>

\* lines 146-147: get timed out on the empty queue
WorkerEmpty ==
    /\ wpc = "get"
    /\ command_queue = <<>>
    /\ wpc' = "loop"
    /\ UNCHANGED <<planVars, virtVars, command, response, ser_open, lock,
                   command_queue, stop_event, mpc, sg, plays, faults,
                   enqueued, passed, wire, answered, lastRaw, wraised>>

\* line 142: send_gcode returned the controller's response
WorkerReturned ==
    /\ wpc = "send"
    /\ sg["worker"].pc = "returned"
    /\ response' = sg["worker"].grbl_out
    /\ answered' = answered + 1
    /\ sg' = [sg EXCEPT !["worker"] = Idle]
    /\ wpc' = "task_done"
    /\ lastRaw' = [lastRaw EXCEPT !["worker"] = <<>>]
    /\ UNCHANGED <<planVars, virtVars, command, ser_open, lock,
                   command_queue, stop_event, mpc, plays, faults, enqueued,
                   passed, wire, wraised>>

\* lines 143-145: task_done, an error response is printed
WorkerTaskDone ==
    /\ wpc = "task_done"
    /\ stop_event' = AfterResponse(response, stop_event)
    /\ response' = <<>>
    /\ command' = NoCommand
    /\ wpc' = "loop"
    /\ UNCHANGED <<planVars, virtVars, ser_open, lock, command_queue, mpc,
                   sg, plays, faults, enqueued, passed, wire, answered,
                   lastRaw, wraised>>

\* lines 148-150: send_gcode raised; the stop flag is set and the loop
\* condition is evaluated again
WorkerExcept ==
    /\ wpc = "send"
    /\ sg["worker"].pc = "raised"
    /\ stop_event' = TRUE
    /\ wraised' = wraised + 1
    /\ sg' = [sg EXCEPT !["worker"] = Idle]
    /\ command' = NoCommand
    /\ wpc' = "loop"
    /\ lastRaw' = [lastRaw EXCEPT !["worker"] = <<>>]
    /\ UNCHANGED <<planVars, virtVars, response, ser_open, lock,
                   command_queue, mpc, plays, faults, enqueued, passed, wire,
                   answered>>

Next ==
    \/ Connect
    \/ ConnectFails
    \/ \E homing_cycle \in BOOLEAN : Initialize(homing_cycle)
    \/ InitializeHomed
    \/ InitializeDone
    \/ MainRaised
    \/ PlayStart
    \/ PlayBuild
    \/ SliceSkip
    \/ SliceMove
    \/ QueueFull
    \/ QueueRecheck
    \/ QueuePut
    \/ Pace
    \/ PlayReturn
    \/ DisconnectClose
    \/ DisconnectSet
    \/ \E t \in Threads : SgAcquire(t)
    \/ \E t \in Threads : SgWrite(t)
    \/ \E t \in Threads, line \in ControllerLines : SgReadline(t, line)
    \/ \E t \in Threads : SgRaise(t)
    \/ \E t \in Threads : SgReturn(t)
    \/ WorkerLoop
    \/ WorkerGet
    \/ WorkerEmpty
    \/ WorkerReturned
    \/ WorkerTaskDone
    \/ WorkerExcept

Spec == Init /\ [][Next]_vars

(* The same machine with a worker thread that is scheduled fairly: it     *)
(* keeps running while it has a statement to execute.                      *)

WorkerNext ==
    \/ WorkerLoop
    \/ WorkerGet
    \/ WorkerEmpty
    \/ WorkerReturned
    \/ WorkerTaskDone
    \/ WorkerExcept
    \/ SgAcquire("worker")
    \/ SgWrite("worker")
    \/ \E line \in ControllerLines : SgReadline("worker", line)
    \/ SgRaise("worker")
    \/ SgReturn("worker")

Fairness == WF_vars(WorkerNext)

SpecLive == Init /\ [][Next]_vars /\ Fairness

----------------------------------------------------------------------------
(* The planner alone: play_notes' loop over the intervals for every short  *)
(* note list, from the state in which a first play_notes has built its     *)
(* intervals; the worker is not scheduled.                                 *)

PlanNotes ==
    {Note(a, f, s, d) : a \in Axes, f \in Frequencies,
                        s \in 0..MaxStart, d \in 1..MaxDuration}

\* note lists are in order of start_time, as convert.py writes them
\* (file_notes.sort)
InStartOrder(ns) ==
    \A i \in 1..(Len(ns) - 1) : ns[i].start_time <= ns[i + 1].start_time

PlanSongs ==
    UNION {{ns \in [1..n -> PlanNotes] : InStartOrder(ns)} : n \in 1..MaxNotes}

\* a connected and initialised XCarve that has sent "$$", its worker idle
Standing ==
    /\ axis_positions = [a \in Axes |-> Mm(StartMm)]
    /\ ser_open = TRUE
    /\ lock = "none"
    /\ command_queue = <<>>
    /\ stop_event = FALSE
    /\ idx = 1
    /\ movement_command = NoCommand
    /\ wpc = "loop"
    /\ command = NoCommand
    /\ response = <<>>
    /\ sg = [t \in Threads |-> Idle]
    /\ plays = 1
    /\ faults = 0
    /\ enqueued = <<>>
    /\ passed = <<>>
    /\ wire = Plain("$$")
    /\ answered = 0
    /\ lastRaw = [t \in Threads |-> <<>>]
    /\ wraised = 0
    /\ direction = [a \in Axes |-> 1]
    /\ running = FALSE
    /\ upc = "none"
    /\ applied = 0
    /\ now = 0

\* a first play_notes has sent "$$" and built its intervals
PlanStart ==
    /\ Standing
    /\ mpc = "slice"
    /\ slice = NoSlice

InitPlan ==
    /\ notes \in PlanSongs
    /\ PlanStart

NextPlan == SliceSkip \/ SliceMove \/ QueuePut \/ Pace \/ PlayReturn

SpecPlan == InitPlan /\ [][NextPlan]_vars

----------------------------------------------------------------------------
(* The planner against the wall clock: as above, and the thread that runs  *)
(* play_notes may fall behind the song by up to MaxLate seconds (it is     *)
(* descheduled, or a sleep returns late).                                  *)

\* X notes whose move is clipped and takes less than the slice, Y notes
\* whose move takes the whole slice
ClockNotes ==
    {Note("X", 4000, s, d) : s \in 0..MaxStart, d \in 1..MaxDuration}
        \cup {Note("Y", 440, s, d) : s \in 0..MaxStart, d \in 1..MaxDuration}

ClockSongs ==
    UNION {{ns \in [1..n -> ClockNotes] : InStartOrder(ns)} : n \in 1..MaxNotes}

InitClock ==
    /\ notes \in ClockSongs
    /\ PlanStart

\* time passes while play_notes is between two of its statements
Late ==
    /\ mpc \in {"slice", "qwait", "sleep"}
    /\ idx <= Len(Intervals(notes))
    /\ now < Intervals(notes)[idx][1] + MaxLate
    /\ now' = now + 1
    /\ UNCHANGED <<notes, axis_positions, idx, slice, movement_command,
                   virtVars, workVars, ser_open, lock, command_queue,
                   stop_event, mpc, sg, plays, faults, enqueued, passed, wire,
                   answered, lastRaw, wraised>>

NextClock == NextPlan \/ Late

SpecClock == InitClock /\ [][NextClock]_vars

----------------------------------------------------------------------------
(* play_notes called with any list of dicts: each note may be without one  *)
(* of the four keys play_notes reads.  From the state in which play_notes  *)
(* has got the answer to "$$" and is about to build its event times.       *)

NoteKeys == {"axis", "frequency", "start_time", "duration"}

\* the dict of the note without the key
Without(note, key) == [k \in (DOMAIN note) \ {key} |-> note[k]]

WholeNotes == {Note(a, 440, s, 1) : a \in Axes, s \in 0..MaxStart}

RecordNotes ==
    WholeNotes \cup {Without(n, key) : n \in WholeNotes, key \in NoteKeys}

\* in order of start_time as far as the notes have one
InKnownStartOrder(ns) ==
    \A i \in 1..Len(ns), j \in 1..Len(ns) :
        (i < j /\ ~Lacks(ns[i], {"start_time"}) /\ ~Lacks(ns[j], {"start_time"}))
            => ns[i].start_time <= ns[j].start_time

RecordSongs ==
    UNION {{ns \in [1..n -> RecordNotes] : InKnownStartOrder(ns)} :
              n \in 1..MaxNotes}

InitRecords ==
    /\ notes \in RecordSongs
    /\ axis_positions = [a \in Axes |-> Mm(StartMm)]
    /\ ser_open = TRUE
    /\ lock = "none"
    /\ command_queue = <<>>
    /\ stop_event = FALSE
    /\ mpc = "accel"
    /\ idx = 0
    /\ slice = NoSlice
    /\ movement_command = NoCommand
    /\ wpc = "loop"
    /\ command = NoCommand
    /\ response = <<>>
    /\ sg = [t \in Threads |->
                IF t = "main"
                THEN [pc |-> "returned", command |-> Plain("$$"),
                      grbl_out |-> S_ok]
                ELSE Idle]
    /\ plays = 1
    /\ faults = 0
    /\ enqueued = <<>>
    /\ passed = <<>>
    /\ wire = Plain("$$")
    /\ answered = 0
    /\ lastRaw = [t \in Threads |-> IF t = "main" THEN S_ok \o EOL ELSE <<>>]
    /\ wraised = 0
    /\ direction = [a \in Axes |-> 1]
    /\ running = FALSE
    /\ upc = "none"
    /\ applied = 0
    /\ now = 0

NextRecords == PlayBuild \/ NextPlan

SpecRecords == InitRecords /\ [][NextRecords]_vars

----------------------------------------------------------------------------
(* play_notes of main.py, the standalone script: the same loop over the    *)
(* intervals with axis_positions, center_position and max_travel as locals *)
(* of the function.  Its loop over active_notes has no                     *)
(* "axis_positions[axis] += adjusted_distance": the local stays at         *)
(* (100, 100) for the whole song.  axis_positions below is that local.     *)

\* main.py lines 229-254: one pass of the loop over active_notes
main_PlanNote(st, note, interval_duration) ==
    [PlanNote(st, note, interval_duration) EXCEPT !.pos = st.pos]

RECURSIVE main_NoteLoop(_, _, _, _)
main_NoteLoop(st, active_notes, k, interval_duration) ==
    IF k > Len(active_notes) THEN st
    ELSE IF NoteRaises(active_notes[k]) THEN [st EXCEPT !.raised = TRUE]
    ELSE main_NoteLoop(main_PlanNote(st, active_notes[k], interval_duration),
                       active_notes, k + 1, interval_duration)

\* main.py lines 201-260: the body of the loop over intervals
main_PlanInterval(pos, ns, i) ==
    LET interval_start == Intervals(ns)[i][1]
        interval_end == Intervals(ns)[i][2]
        interval_duration == interval_end - interval_start
        active_notes == ActiveNotes(ns, interval_start, interval_end)
        st == main_NoteLoop([pos |-> pos, moves |-> NoMoves,
                             note_distance |-> NoDistances, raised |-> FALSE],
                            active_notes, 1, interval_duration)
        combined_feed_rate == calculate_combined_feed_rate(st.moves)
    IN  [active |-> active_notes,
         dur |-> interval_duration,
         pos |-> st.pos,
         moves |-> st.moves,
         note_distance |-> st.note_distance,
         raised |-> st.raised,
         feed |-> combined_feed_rate,
         cmd |-> FormatCommand(st.moves, combined_feed_rate)]

\* main.py lines 224-260: the moves of the interval and its command
MainSliceMove ==
    /\ mpc = "slice"
    /\ idx <= Len(Intervals(notes))
    /\ LET p == main_PlanInterval(axis_positions, notes, idx)
       IN  /\ ~SkipsInterval(p.dur, p.active,
                              Intervals(notes)[idx][1] - now)
           /\ axis_positions' = p.pos
           /\ IF p.raised
              THEN /\ mpc' = "failed"
                   /\ UNCHANGED <<slice, movement_command>>
              ELSE /\ mpc' = "qwait"
                   /\ slice' = [moves |-> p.moves, feed |-> p.feed,
                                dur |-> p.dur,
                                note_distance |-> p.note_distance]
                   /\ movement_command' = p.cmd
    /\ now' = WaitUntil(now, Intervals(notes)[idx][1])
    /\ UNCHANGED <<notes, idx, virtVars, workVars, ser_open, lock,
                   command_queue, stop_event, sg, plays, faults, enqueued,
                   passed, wire, answered, lastRaw, wraised>>

InitMain ==
    /\ notes \in PlanSongs
    /\ PlanStart

NextMain == SliceSkip \/ MainSliceMove \/ QueuePut \/ Pace \/ PlayReturn

SpecMain == InitMain /\ [][NextMain]_vars

----------------------------------------------------------------------------
(* The Centered range policy alone: choose_direction and                   *)
(* adjust_movement_distance called on a standing XCarve with arguments     *)
(* from a grid, and the position update of play_notes (line 302) applied   *)
(* to the distance returned, so that every position of the grid inside the *)
(* travel range is the current position of some call.                      *)

MaxMove == 6

\* the grid: a fifth of max_travel
PolicyStep == Mm(MaxTravelMm) \div 5

PolicyDistances == {k * PolicyStep : k \in 0..MaxMove}

\* slice holds the call made last: its name, arguments and return value
NoCall == [call |-> "", axis |-> "X", arg |-> 0, result |-> 0]

InitPolicy ==
    /\ notes = <<>>
    /\ Standing
    /\ mpc = "policy"
    /\ slice = NoCall

\* direction = self.choose_direction(axis, movement_distance)
ChooseDirection(axis, movement_distance) ==
    /\ mpc = "policy"
    /\ slice' = [call |-> "choose_direction", axis |-> axis,
                 arg |-> movement_distance,
                 result |-> choose_direction(axis_positions, axis,
                                             movement_distance)]
    /\ UNCHANGED <<notes, axis_positions, idx, movement_command, now,
                   virtVars, workVars, ser_open, lock, command_queue,
                   stop_event, mpc, sg, plays, faults, enqueued, passed, wire,
                   answered, lastRaw, wraised>>

\* adjusted_distance = self.adjust_movement_distance(axis, desired_distance)
AdjustMovementDistance(axis, desired_distance) ==
    /\ mpc = "policy"
    /\ slice' = [call |-> "adjust_movement_distance", axis |-> axis,
                 arg |-> desired_distance,
                 result |-> adjust_movement_distance(axis_positions, axis,
                                                     desired_distance)]
    /\ UNCHANGED <<notes, axis_positions, idx, movement_command, now,
                   virtVars, workVars, ser_open, lock, command_queue,
                   stop_event, mpc, sg, plays, faults, enqueued, passed, wire,
                   answered, lastRaw, wraised>>

\* self.axis_positions[axis] += adjusted_distance
ApplyDistance ==
    /\ mpc = "policy"
    /\ slice.call = "adjust_movement_distance"
    /\ axis_positions' = [axis_positions EXCEPT ![slice.axis] = @ + slice.result]
    /\ slice' = NoCall
    /\ UNCHANGED <<notes, idx, movement_command, now,
                   virtVars, workVars, ser_open, lock, command_queue,
                   stop_event, mpc, sg, plays, faults, enqueued, passed, wire,
                   answered, lastRaw, wraised>>

NextPolicy ==
    \/ \E axis \in Axes, movement_distance \in PolicyDistances :
            ChooseDirection(axis, movement_distance)
    \/ \E axis \in Axes, distance \in PolicyDistances, sign \in {-1, 1} :
            AdjustMovementDistance(axis, sign * distance)
    \/ ApplyDistance

SpecPolicy == InitPolicy /\ [][NextPolicy]_vars

----------------------------------------------------------------------------
(* calculate_movement_time alone, in finer units than the pacing of the    *)
(* planner needs: times in ms, distances in 1/1000 mm, speeds in mm/s, so  *)
(* that both profiles are exact at the boundary total_distance =           *)
(* 2 * d_accel.  The feed rates are the multiples of 60 mm/min.            *)

MaxSpeed == 12

\* feed_rate_mm_per_s = feed_rate / 60.0
feed_rate_mm_per_s(feed_rate) == feed_rate \div SecondsPerMinute

\* t_accel = feed_rate_mm_per_s / max_acceleration, in ms
t_accel(feed_rate) == (1000 * feed_rate_mm_per_s(feed_rate)) \div max_acceleration

\* 2 * d_accel = max_acceleration * t_accel ** 2, in 1/1000 mm
twice_d_accel(feed_rate) ==
    (max_acceleration * t_accel(feed_rate) * t_accel(feed_rate)) \div 1000

\* the triangular profile without its factor 2
triangular_half(total_distance) ==
    ISqrt((1000 * total_distance) \div max_acceleration)

\* t_total = 2 * math.sqrt(total_distance / max_acceleration), in ms
triangular(total_distance) ==
    2 * ISqrt((1000 * total_distance) \div max_acceleration)

\* t_total = 2 * t_accel + (total_distance - 2 * d_accel) / feed_rate_mm_per_s
trapezoidal(total_distance, feed_rate) ==
    2 * t_accel(feed_rate)
        + (total_distance - twice_d_accel(feed_rate))
              \div feed_rate_mm_per_s(feed_rate)

\* lines 223-232: the profile is chosen by total_distance < 2 * d_accel
t_total(total_distance, feed_rate) ==
    IF total_distance < twice_d_accel(feed_rate)
    THEN triangular(total_distance)
    ELSE trapezoidal(total_distance, feed_rate)

TimedFeeds == {SecondsPerMinute * v : v \in 1..MaxSpeed}

TimedDistances == 0..(MaxSpeed * MaxSpeed)

InitTime ==
    /\ notes = <<>>
    /\ Standing
    /\ mpc = "time"
    /\ slice = NoCall

\* movement_time = self.calculate_movement_time(distances,
\* combined_feed_rate, acceleration_settings)
CalculateMovementTime(total_distance, feed_rate) ==
    /\ mpc = "time"
    /\ slice' = [call |-> "calculate_movement_time",
                 total_distance |-> total_distance,
                 feed_rate |-> feed_rate,
                 result |-> t_total(total_distance, feed_rate)]
    /\ UNCHANGED <<notes, axis_positions, idx, movement_command, now,
                   virtVars, workVars, ser_open, lock, command_queue,
                   stop_event, mpc, sg, plays, faults, enqueued, passed, wire,
                   answered, lastRaw, wraised>>

NextTime ==
    \E total_distance \in TimedDistances, feed_rate \in TimedFeeds :
        CalculateMovementTime(total_distance, feed_rate)

SpecTime == InitTime /\ [][NextTime]_vars

----------------------------------------------------------------------------
(* convert.py: midi_to_cnc from the note intervals on.  notes holds        *)
(* note_intervals, slice.output_files the lists of                         *)
(* assign_intervals_to_files.  The intervals are built in order of their   *)
(* end (the note_off events in time order), have a positive duration, and  *)
(* are then sorted by start_time with a stable sort: the list is in order  *)
(* of (start_time, end_time).                                              *)

MaxIntervals == 5

cnc_axes == 2

axes == <<"X", "Y">>

\* an interval dict; id stands for the identity of the dict object
Interval(id, s, e) ==
    [id |-> id, start_time |-> s, end_time |-> e, axis |-> "none"]

\* lines 91-96: the greatest number of notes sounding at one of the times
max_simultaneous_notes(note_intervals) ==
    LET times == {note_intervals[i].start_time : i \in 1..Len(note_intervals)}
                 \cup {note_intervals[i].end_time : i \in 1..Len(note_intervals)}
        count(t) == Cardinality({i \in 1..Len(note_intervals) :
                        /\ note_intervals[i].start_time <= t
                        /\ t < note_intervals[i].end_time})
    IN  IF times = {} THEN 0
        ELSE CHOOSE c \in {count(t) : t \in times} :
                \A t \in times : count(t) <= c

\* math.ceil(max_simultaneous_notes / cnc_axes)
num_output_files(note_intervals) ==
    (max_simultaneous_notes(note_intervals) + cnc_axes - 1) \div cnc_axes

\* lines 199-204: the events of the intervals of a file and of the interval
RECURSIVE FileEvents(_)
FileEvents(file_intervals) ==
    IF file_intervals = <<>> THEN <<>>
    ELSE << <<Head(file_intervals).start_time, 1>>,
            <<Head(file_intervals).end_time, -1>> >>
            \o FileEvents(Tail(file_intervals))

\* the order of tuples (time, +1 or -1): an end sorts before a start at
\* the same time
EventBefore(e1, e2) == e1[1] < e2[1] \/ (e1[1] = e2[1] /\ e1[2] <= e2[2])

RECURSIVE InsertEvent(_, _)
InsertEvent(sorted, e) ==
    IF sorted = <<>> THEN <<e>>
    ELSE IF EventBefore(Head(sorted), e)
    THEN <<Head(sorted)>> \o InsertEvent(Tail(sorted), e)
    ELSE <<e>> \o sorted

\* the events left in the order they were appended
RECURSIVE SortEvents_unsorted(_)
SortEvents_unsorted(events) == events

\* line 206: events.sort()
RECURSIVE SortEvents(_)
SortEvents(events) ==
    IF events = <<>> THEN <<>>
    ELSE InsertEvent(SortEvents(Tail(events)), Head(events))

\* lines 207-213: the sweep over the sorted events; the break only ends
\* the sweep once max_overlaps is above cnc_axes
RECURSIVE MaxOverlaps(_, _, _)
MaxOverlaps(events, overlaps, max_overlaps) ==
    IF events = <<>> THEN max_overlaps
    ELSE LET now_overlaps == overlaps + Head(events)[2]
         IN  MaxOverlaps(Tail(events), now_overlaps,
                         Max2(max_overlaps, now_overlaps))

\* line 214: the interval can be assigned to the file
CanAssign(file_intervals, interval) ==
    MaxOverlaps(SortEvents(FileEvents(Append(file_intervals, interval))), 0, 0)
        <= cnc_axes

\* lines 193-222: one pass of the loop over note_intervals: the first file
\* that can take the interval, or a new file
AssignToFile(output_files, interval) ==
    IF \E f \in 1..Len(output_files) : CanAssign(output_files[f], interval)
    THEN LET f == CHOOSE g \in 1..Len(output_files) :
                     /\ CanAssign(output_files[g], interval)
                     /\ \A h \in 1..(g - 1) :
                            ~CanAssign(output_files[h], interval)
         IN  [output_files EXCEPT ![f] = Append(@, interval)]
    ELSE Append(output_files, <<interval>>)

\* the stable sorts by start_time (lines 135 and 140)
RECURSIVE InsertByStart(_, _)
InsertByStart(sorted, n) ==
    IF sorted = <<>> THEN <<n>>
    ELSE IF sorted[Len(sorted)].start_time <= n.start_time
    THEN Append(sorted, n)
    ELSE Append(InsertByStart(SubSeq(sorted, 1, Len(sorted) - 1), n),
                sorted[Len(sorted)])

RECURSIVE SortByStart(_)
SortByStart(file_notes) ==
    IF file_notes = <<>> THEN <<>>
    ELSE InsertByStart(SortByStart(SubSeq(file_notes, 1, Len(file_notes) - 1)),
                       file_notes[Len(file_notes)])

\* line 139: the notes of the file that overlap the interval
Overlapping(file_notes, interval) ==
    SortByStart(SelectSeq(file_notes,
        LAMBDA n : ~(n.end_time <= interval.start_time
                     \/ n.start_time >= interval.end_time)))

\* lines 142-143: note['axis'] = axes[idx % cnc_axes] for the notes of
\* overlapping, which are the dicts of file_notes
SetAxes(file_notes, overlapping) ==
    [k \in 1..Len(file_notes) |->
        IF \E j \in 1..Len(overlapping) : overlapping[j].id = file_notes[k].id
        THEN LET j == CHOOSE i \in 1..Len(overlapping) :
                         overlapping[i].id = file_notes[k].id
             IN  [file_notes[k] EXCEPT !.axis = axes[((j - 1) % cnc_axes) + 1]]
        ELSE file_notes[k]]

\* lines 137-143: the loop over the intervals of the file, from the k-th
RECURSIVE AxisLoop(_, _)
AxisLoop(file_notes, k) ==
    IF k > Len(file_notes) THEN file_notes
    ELSE AxisLoop(SetAxes(file_notes, Overlapping(file_notes, file_notes[k])),
                  k + 1)

\* lines 133-143 for one file
AssignAxesInFile(file_notes) == AxisLoop(SortByStart(file_notes), 1)

NoFiles == [output_files |-> <<>>]

InitSplit ==
    /\ notes = <<>>
    /\ Standing
    /\ mpc = "intervals"
    /\ slice = NoFiles

\* lines 55-87: one more note interval, later in the order of the list
AddInterval(s, d) ==
    /\ mpc = "intervals"
    /\ Len(notes) < MaxIntervals
    /\ notes # <<>> =>
          \/ notes[Len(notes)].start_time < s
          \/ /\ notes[Len(notes)].start_time = s
             /\ notes[Len(notes)].end_time <= s + d
    /\ notes' = Append(notes, Interval(Len(notes) + 1, s, s + d))
    /\ UNCHANGED <<axis_positions, idx, slice, movement_command, now,
                   virtVars, workVars, ser_open, lock, command_queue,
                   stop_event, mpc, sg, plays, faults, enqueued, passed, wire,
                   answered, lastRaw, wraised>>

\* lines 104-130: more files than one are needed and the user answers y
SplitFiles ==
    /\ mpc = "intervals"
    /\ num_output_files(notes) > 1
    /\ mpc' = "assign"
    /\ idx' = 1
    /\ UNCHANGED <<notes, axis_positions, slice, movement_command, now,
                   virtVars, workVars, ser_open, lock, command_queue,
                   stop_event, sg, plays, faults, enqueued, passed, wire,
                   answered, lastRaw, wraised>>

\* lines 160-168: one file, every interval on axes[0]
SingleFile ==
    /\ mpc = "intervals"
    /\ slice' = [output_files |->
                    <<[k \in 1..Len(notes) |->
                          [notes[k] EXCEPT !.axis = axes[1]]]>>]
    /\ mpc' = "single"
    /\ UNCHANGED <<notes, axis_positions, idx, movement_command, now,
                   virtVars, workVars, ser_open, lock, command_queue,
                   stop_event, sg, plays, faults, enqueued, passed, wire,
                   answered, lastRaw, wraised>>

\* assign_intervals_to_files: one pass of its loop over note_intervals
AssignInterval ==
    /\ mpc = "assign"
    /\ idx <= Len(notes)
    /\ slice' = [output_files |-> AssignToFile(slice.output_files, notes[idx])]
    /\ idx' = idx + 1
    /\ UNCHANGED <<notes, axis_positions, movement_command, now,
                   virtVars, workVars, ser_open, lock, command_queue,
                   stop_event, mpc, sg, plays, faults, enqueued, passed, wire,
                   answered, lastRaw, wraised>>

\* line 222 and lines 132-143: the files are returned and the axes
\* assigned within each file
AssignAxes ==
    /\ mpc = "assign"
    /\ idx > Len(notes)
    /\ slice' = [output_files |->
                    [f \in 1..Len(slice.output_files) |->
                        AssignAxesInFile(slice.output_files[f])]]
    /\ mpc' = "split"
    /\ UNCHANGED <<notes, axis_positions, idx, movement_command, now,
                   virtVars, workVars, ser_open, lock, command_queue,
                   stop_event, sg, plays, faults, enqueued, passed, wire,
                   answered, lastRaw, wraised>>

NextSplit ==
    \/ \E s \in 0..MaxStart, d \in 1..MaxDuration : AddInterval(s, d)
    \/ SplitFiles
    \/ SingleFile
    \/ AssignInterval
    \/ AssignAxes

SpecSplit == InitSplit /\ [][NextSplit]_vars

----------------------------------------------------------------------------
(* VirtualCNC: the simulated machine (virtual_cnc.py).  Three threads: the *)
(* window thread (run), the play_notes thread and the serial_worker.  The  *)
(* audio thread and the drawing of a frame change none of the state below. *)

\* choose_direction: the direction kept or reversed; no distance is clipped
v_choose_direction(pos, dir, axis, movement_distance) ==
    LET proposed_position == pos[axis] + movement_distance * dir[axis]
    IN  IF /\ working_bound_1[axis] <= proposed_position
           /\ proposed_position <= working_bound_2[axis]
        THEN dir[axis]
        ELSE IF proposed_position < working_bound_1[axis] THEN 1
        ELSE -1

\* VirtualCNC.calculate_movement_time, in whole seconds rounded down
v_calculate_movement_time(m, combined_feed_rate) ==
    IF combined_feed_rate = 0 THEN 0
    ELSE TotalDistance(m) \div combined_feed_rate

\* float(part[1:]): the 1/10000 mm of the command text, in position units
ParseFloat(val) == RoundDiv(val * SecondsPerMinute, 10000)

\* max(0, min(x, bed))
ClampToBed(x) == Max2(0, Min2(x, Mm(BedMm)))

ClampAxes == <<"X", "Y">>

VSongs ==
    { <<Note("X", 440, 0, 1)>>,
      <<Note("X", 4000, 0, 3), Note("Y", 440, 0, 3)>>,
      <<Note("X", 1600, 0, 2), Note("X", 1600, 2, 2)>>,
      <<Note("Y", 440, 0, 1), Note("Y", 440, 2, 1)>>,
      [i \in 1..LongLen |-> Note("X", 0, i - 1, 1)] }

VNoSlice ==
    [moves |-> NoMoves, feed |-> 0, dur |-> 0, k |-> 0, note_distance |-> 0,
     tmp |-> 0]

VIdle == [pc |-> "idle", command |-> NoCommand, part |-> 0, tmp |-> 0]

InitV ==
    /\ notes \in VSongs
    /\ axis_positions = [a \in Axes |-> Mm(VStartMm)]
    /\ direction = [a \in Axes |-> 1]
    /\ running = FALSE
    /\ upc = "start"
    /\ applied = 0
    /\ ser_open = FALSE
    /\ lock = "none"
    /\ command_queue = <<>>
    /\ stop_event = FALSE
    /\ mpc = "none"
    /\ idx = 0
    /\ slice = VNoSlice
    /\ movement_command = NoCommand
    /\ wpc = "none"
    /\ command = NoCommand
    /\ response = <<>>
    /\ sg = [t \in Threads |-> VIdle]
    /\ plays = 0
    /\ faults = 0
    /\ enqueued = <<>>
    /\ passed = <<>>
    /\ wire = NoCommand
    /\ answered = 0
    /\ lastRaw = [t \in Threads |-> <<>>]
    /\ wraised = 0
    /\ now = 0

xcarveVars == <<ser_open, faults, wire, answered, lastRaw, wraised, response>>

(* run *)

\* lines 345-351: both threads are started
VRunStart ==
    /\ upc = "start"
    /\ wpc' = "loop"
    /\ mpc' = "vplay"
    /\ upc' = "set_running"
    /\ UNCHANGED <<planVars, xcarveVars, direction, running, applied, lock,
                   command_queue, stop_event, command, sg, plays, enqueued,
                   passed>>

\* line 354
VRunSetRunning ==
    /\ upc = "set_running"
    /\ running' = TRUE
    /\ upc' = "loop"
    /\ UNCHANGED <<planVars, xcarveVars, direction, applied, lock,
                   command_queue, stop_event, mpc, wpc, command, sg, plays,
                   enqueued, passed>>

\* lines 356-360: the window is closed
VRunQuit ==
    /\ upc = "loop"
    /\ running
    /\ running' = FALSE
    /\ stop_event' = TRUE
    /\ UNCHANGED <<planVars, xcarveVars, direction, upc, applied, lock,
                   command_queue, mpc, wpc, command, sg, plays, enqueued,
                   passed>>

\* line 356: the event loop is left
VRunLeave ==
    /\ upc = "loop"
    /\ ~running
    /\ upc' = "join_play"
    /\ UNCHANGED <<planVars, xcarveVars, direction, running, applied, lock,
                   command_queue, stop_event, mpc, wpc, command, sg, plays,
                   enqueued, passed>>

\* line 391
VRunJoinPlay ==
    /\ upc = "join_play"
    /\ mpc = "done"
    /\ upc' = "join_worker"
    /\ UNCHANGED <<planVars, xcarveVars, direction, running, applied, lock,
                   command_queue, stop_event, mpc, wpc, command, sg, plays,
                   enqueued, passed>>

\* line 392
VRunJoinWorker ==
    /\ upc = "join_worker"
    /\ wpc = "exit"
    /\ upc' = "done"
    /\ UNCHANGED <<planVars, xcarveVars, direction, running, applied, lock,
                   command_queue, stop_event, mpc, wpc, command, sg, plays,
                   enqueued, passed>>

(* play_notes *)

VActive ==
    ActiveNotes(notes, Intervals(notes)[idx][1], Intervals(notes)[idx][2])

\* lines 141-159
VPlayStart ==
    /\ mpc = "vplay"
    /\ plays' = plays + 1
    /\ idx' = 1
    /\ now' = 0
    /\ mpc' = "slice"
    /\ UNCHANGED <<notes, axis_positions, slice, movement_command,
                   xcarveVars, virtVars, lock, command_queue, stop_event,
                   wpc, command, sg, enqueued, passed>>

\* lines 162-183: an interval without active notes is passed over
VSliceSkip ==
    /\ mpc = "slice"
    /\ idx <= Len(Intervals(notes))
    /\ VActive = <<>>
    /\ now' = WaitUntil(now, Intervals(notes)[idx][1])
    /\ idx' = idx + 1
    /\ UNCHANGED <<notes, axis_positions, slice, movement_command,
                   xcarveVars, virtVars, lock, command_queue, stop_event,
                   mpc, wpc, command, sg, plays, enqueued, passed>>

\* lines 185-188: the loop over the active notes begins
VSliceBegin ==
    /\ mpc = "slice"
    /\ idx <= Len(Intervals(notes))
    /\ VActive # <<>>
    /\ slice' = [VNoSlice EXCEPT
                    !.dur = Intervals(notes)[idx][2] - Intervals(notes)[idx][1],
                    !.k = 1]
    /\ now' = WaitUntil(now, Intervals(notes)[idx][1])
    /\ mpc' = "note"
    /\ UNCHANGED <<notes, axis_positions, idx, movement_command, xcarveVars,
                   virtVars, lock, command_queue, stop_event, wpc, command,
                   sg, plays, enqueued, passed>>

\* lines 191-206: feed rate, distance and direction of one note
VNoteDirection ==
    /\ mpc = "note"
    /\ slice.k <= Len(VActive)
    /\ LET note == VActive[slice.k]
           note_distance == NoteFeedRate(note) * slice.dur
           dir == v_choose_direction(axis_positions, direction, note.axis,
                                     note_distance)
       IN  /\ direction' = [direction EXCEPT ![note.axis] = dir]
           /\ slice' = [slice EXCEPT !.note_distance = note_distance * dir]
    /\ mpc' = "note_read"
    /\ UNCHANGED <<now, notes, axis_positions, idx, movement_command, xcarveVars,
                   running, upc, applied, lock, command_queue, stop_event,
                   wpc, command, sg, plays, enqueued, passed>>

\* line 209, the read of self.axis_positions[axis] += note_distance
VNoteRead ==
    /\ mpc = "note_read"
    /\ slice' = [slice EXCEPT !.tmp = axis_positions[VActive[slice.k].axis]]
    /\ mpc' = "note_write"
    /\ UNCHANGED <<now, notes, axis_positions, idx, movement_command, xcarveVars,
                   virtVars, lock, command_queue, stop_event, wpc, command,
                   sg, plays, enqueued, passed>>

\* lines 209-214, the write of the += and the two dict entries
VNoteWrite ==
    /\ mpc = "note_write"
    /\ LET note == VActive[slice.k]
           axis == note.axis
       IN  /\ axis_positions' =
                 [axis_positions EXCEPT ![axis] = slice.tmp + slice.note_distance]
           /\ slice' =
                 [slice EXCEPT
                    !.k = @ + 1,
                    !.moves =
                       [order |-> IF axis \in Keys(slice.moves)
                                  THEN slice.moves.order
                                  ELSE Append(slice.moves.order, axis),
                        d |-> [slice.moves.d EXCEPT
                                  ![axis] = slice.note_distance],
                        req |-> [slice.moves.req EXCEPT
                                  ![axis] = NoteFeedRate(note)]]]
    /\ mpc' = "note"
    /\ UNCHANGED <<now, notes, idx, movement_command, xcarveVars, virtVars, lock,
                   command_queue, stop_event, wpc, command, sg, plays,
                   enqueued, passed>>

\* lines 220-225: combined feed rate and command text
VCommand ==
    /\ mpc = "note"
    /\ slice.k > Len(VActive)
    /\ LET combined_feed_rate == calculate_combined_feed_rate(slice.moves)
       IN  /\ slice' = [slice EXCEPT !.feed = combined_feed_rate]
           /\ movement_command' =
                 FormatCommand(slice.moves, combined_feed_rate)
    /\ mpc' = "qwait"
    /\ UNCHANGED <<now, notes, axis_positions, idx, xcarveVars, virtVars, lock,
                   command_queue, stop_event, wpc, command, sg, plays,
                   enqueued, passed>>

\* lines 233-237: calculate_movement_time returns (0 for a feed rate of 0)
\* and the thread sleeps
VPace ==
    /\ mpc = "sleep"
    /\ idx' = idx + 1
    /\ now' = now + v_calculate_movement_time(slice.moves, slice.feed)
    /\ mpc' = "slice"
    /\ UNCHANGED <<notes, axis_positions, slice, movement_command,
                   xcarveVars, virtVars, lock, command_queue, stop_event,
                   wpc, command, sg, plays, enqueued, passed>>

\* line 240
VPlayEnd ==
    /\ mpc = "slice"
    /\ idx > Len(Intervals(notes))
    /\ running' = FALSE
    /\ mpc' = "ending"
    /\ UNCHANGED <<planVars, xcarveVars, direction, upc, applied, lock,
                   command_queue, stop_event, wpc, command, sg, plays,
                   enqueued, passed>>

\* lines 241-242
VPlayStop ==
    /\ mpc = "ending"
    /\ stop_event' = TRUE
    /\ mpc' = "done"
    /\ UNCHANGED <<planVars, xcarveVars, virtVars, lock, command_queue, wpc,
                   command, sg, plays, enqueued, passed>>

(* send_gcode, run by the worker *)

\* line 107
VSgAcquire ==
    /\ sg["worker"].pc = "lock"
    /\ LockFree("worker")
    /\ lock' = "worker"
    /\ sg' = [sg EXCEPT !["worker"] =
                [pc |-> "parse", command |-> command, part |-> 1, tmp |-> 0]]
    /\ UNCHANGED <<planVars, xcarveVars, virtVars, command_queue, stop_event,
                   mpc, wpc, command, plays, enqueued, passed>>

\* lines 112-116, the read of self.axis_positions[...] += float(part[1:])
VSgPartRead ==
    /\ sg["worker"].pc = "parse"
    /\ sg["worker"].part <= Len(command.moves)
    /\ sg' = [sg EXCEPT
                !["worker"].tmp =
                    axis_positions[command.moves[sg["worker"].part].axis],
                !["worker"].pc = "part_write"]
    /\ UNCHANGED <<planVars, xcarveVars, virtVars, lock, command_queue,
                   stop_event, mpc, wpc, command, plays, enqueued, passed>>

\* lines 112-116, the write of the +=
VSgPartWrite ==
    /\ sg["worker"].pc = "part_write"
    /\ LET move == command.moves[sg["worker"].part]
       IN  axis_positions' =
              [axis_positions EXCEPT
                  ![move.axis] = sg["worker"].tmp + ParseFloat(move.val)]
    /\ sg' = [sg EXCEPT !["worker"].part = @ + 1, !["worker"].pc = "parse"]
    /\ UNCHANGED <<now, notes, idx, slice, movement_command, xcarveVars, virtVars,
                   lock, command_queue, stop_event, mpc, wpc, command, plays,
                   enqueued, passed>>

\* line 117: all parts are applied, the clamps begin
VSgParsed ==
    /\ sg["worker"].pc = "parse"
    /\ sg["worker"].part > Len(command.moves)
    /\ sg' = [sg EXCEPT !["worker"].part = 1, !["worker"].pc = "clamp"]
    /\ UNCHANGED <<planVars, xcarveVars, virtVars, lock, command_queue,
                   stop_event, mpc, wpc, command, plays, enqueued, passed>>

\* lines 118-119, the read of one clamp
VSgClampRead ==
    /\ sg["worker"].pc = "clamp"
    /\ sg["worker"].part <= Len(ClampAxes)
    /\ sg' = [sg EXCEPT
                !["worker"].tmp = axis_positions[ClampAxes[sg["worker"].part]],
                !["worker"].pc = "clamp_write"]
    /\ UNCHANGED <<planVars, xcarveVars, virtVars, lock, command_queue,
                   stop_event, mpc, wpc, command, plays, enqueued, passed>>

\* lines 118-119, the write of one clamp
VSgClampWrite ==
    /\ sg["worker"].pc = "clamp_write"
    /\ axis_positions' =
          [axis_positions EXCEPT
              ![ClampAxes[sg["worker"].part]] = ClampToBed(sg["worker"].tmp)]
    /\ sg' = [sg EXCEPT !["worker"].part = @ + 1, !["worker"].pc = "clamp"]
    /\ UNCHANGED <<now, notes, idx, slice, movement_command, xcarveVars, virtVars,
                   lock, command_queue, stop_event, mpc, wpc, command, plays,
                   enqueued, passed>>

\* line 120 and the end of the with block
VSgReturn ==
    /\ sg["worker"].pc = "clamp"
    /\ sg["worker"].part > Len(ClampAxes)
    /\ lock' = "none"
    /\ applied' = applied + 1
    /\ sg' = [sg EXCEPT !["worker"].pc = "returned"]
    /\ UNCHANGED <<planVars, xcarveVars, direction, running, upc,
                   command_queue, stop_event, mpc, wpc, command, plays,
                   enqueued, passed>>

(* serial_worker *)

\* lines 125-126: a command is dequeued and handed to send_gcode
VWorkerGet ==
    /\ wpc = "get"
    /\ command_queue # <<>>
    /\ command' = QueueFront(command_queue)
    /\ command_queue' = QueueRest(command_queue)
    /\ passed' = Append(passed, QueueFront(command_queue))
    /\ sg' = [sg EXCEPT !["worker"] =
                [VIdle EXCEPT !.pc = "lock",
                              !.command = QueueFront(command_queue)]]
    /\ wpc' = "send"
    /\ UNCHANGED <<planVars, xcarveVars, virtVars, lock, stop_event, mpc,
                   plays, enqueued>>

\* line 127
VWorkerTaskDone ==
    /\ wpc = "send"
    /\ sg["worker"].pc = "returned"
    /\ sg' = [sg EXCEPT !["worker"] = VIdle]
    /\ command' = NoCommand
    /\ wpc' = "loop"
    /\ UNCHANGED <<planVars, xcarveVars, virtVars, lock, command_queue,
                   stop_event, mpc, plays, enqueued, passed>>

NextV ==
    \/ VRunStart
    \/ VRunSetRunning
    \/ VRunQuit
    \/ VRunLeave
    \/ VRunJoinPlay
    \/ VRunJoinWorker
    \/ VPlayStart
    \/ VSliceSkip
    \/ VSliceBegin
    \/ VNoteDirection
    \/ VNoteRead
    \/ VNoteWrite
    \/ VCommand
    \/ QueueFull
    \/ QueueRecheck
    \/ QueuePut
    \/ VPace
    \/ VPlayEnd
    \/ VPlayStop
    \/ VSgAcquire
    \/ VSgPartRead
    \/ VSgPartWrite
    \/ VSgParsed
    \/ VSgClampRead
    \/ VSgClampWrite
    \/ VSgReturn
    \/ WorkerLoop
    \/ VWorkerGet
    \/ WorkerEmpty
    \/ VWorkerTaskDone

SpecV == InitV /\ [][NextV]_vars

----------------------------------------------------------------------------
(* Claims *)

InTravel(a) ==
    /\ axis_positions[a] >= center_position[a] - max_travel[a]
    /\ axis_positions[a] <= center_position[a] + max_travel[a]

\* C1: in XCarve.play_notes (center 100, max_travel 50, start 100) the
\* tracked position of every axis lies within [50, 150] mm after every
\* slice, for every note list.
C1_PositionsWithinTravel == \A a \in Axes : InTravel(a)

\* a slice has been processed whose move was clipped at the upper bound
C1_Witness ==
    /\ mpc = "qwait"
    /\ \E a \in Keys(slice.moves) :
          /\ axis_positions[a] = center_position[a] + max_travel[a]
          /\ slice.moves.d[a] > 0
          /\ slice.moves.d[a] < slice.moves.req[a] * slice.dur

\* C2: in VirtualCNC.play_notes (working bounds 100 and 300, position and
\* direction as the constructor sets them) every axis moved by a slice has
\* its tracked position within [working_bound_1, working_bound_2] after the
\* slice.
C2_WithinWorkingBounds ==
    mpc = "qwait"
        => \A a \in Keys(slice.moves) :
              /\ working_bound_1[a] <= axis_positions[a]
              /\ axis_positions[a] <= working_bound_2[a]

InExchange(t) == sg[t].pc = "read"

\* C3: the commands the worker hands to send_gcode are, in order and
\* without duplicates, a prefix of the commands play_notes put on the
\* queue (what is queued is exactly the rest), and while the worker's
\* exchange is in progress no other line is written to the link.
C3_FifoDelivery ==
    /\ IsPrefix(passed, enqueued)
    /\ passed \o command_queue = enqueued
    /\ InExchange("worker") => wire = command

\* the worker is sending the second of two different commands
C3_Witness ==
    /\ Len(passed) >= 2
    /\ passed[1] # passed[2]
    /\ InExchange("worker")
    /\ command = passed[Len(passed)]

\* C4: at the end of a finite run (play_notes run to its end, port closed,
\* stop flag set, worker exited) the number of commands written and
\* answered equals the number of commands enqueued -- stated for the runs
\* in which the link itself never fails.
C4_NoCommandLost ==
    (/\ mpc = "done"
     /\ wpc = "exit"
     /\ faults = 0
     /\ idx > Len(Intervals(notes)))
        => answered = Len(enqueued)

\* C5: once the producer has enqueued its last command and disconnect has
\* set the stop flag, every command still queued is delivered: send_gcode
\* raises for none of them -- stated for the runs in which play_notes ran
\* to its end and the link itself never fails.
C5_DrainedAfterStop ==
    [][(/\ mpc = "done"
        /\ stop_event
        /\ faults = 0
        /\ idx > Len(Intervals(notes)))
            => wraised' = wraised]_vars

\* C6: command_queue never holds more than 15 commands.
C6_QueueBounded == Len(command_queue) <= QueueLimit

\* the queue holds 15 commands and play_notes sleeps with the next one
C6_Witness ==
    /\ Len(command_queue) = QueueLimit
    /\ mpc = "qsleep"
    /\ movement_command # NoCommand

\* C7: at most one send_gcode exchange (command written, terminal response
\* not yet read) is in progress at any instant, over both threads.
C7_OneExchange == Cardinality({t \in Threads : InExchange(t)}) <= 1

\* play_notes' "$$" exchange is in progress while the worker waits for the
\* lock with a dequeued command
C7_Witness ==
    /\ InExchange("main")
    /\ sg["main"].command = Plain("$$")
    /\ sg["worker"].pc = "lock"

TerminalLine(r) ==
    \/ r = <<"o", "k">>
    \/ StartsWith(r, <<"e", "r", "r", "o", "r">>)
    \/ StartsWith(r, <<"A", "L", "A", "R", "M">>)
    \/ StartsWith(r, <<"G", "r", "b", "l">>)

\* C8: send_gcode returns only after reading a line that, stripped, is
\* 'ok' or starts with 'error', 'ALARM' or 'Grbl', and returns exactly that
\* stripped line; no other line ends the read loop.
C8_ReturnsTerminalLine ==
    /\ \A t \in Threads :
          sg[t].pc \in {"ret", "returned"}
              => /\ sg[t].grbl_out = Strip(lastRaw[t])
                 /\ sg[t].grbl_out # <<>>
                 /\ TerminalLine(sg[t].grbl_out)
    /\ wpc = "task_done" => TerminalLine(response)

\* send_gcode is about to return an error line it has stripped
C8_Witness ==
    \E t \in Threads :
        /\ sg[t].pc = "ret"
        /\ StartsWith(sg[t].grbl_out, S_error)
        /\ lastRaw[t] # sg[t].grbl_out

NonFatal(r) == StartsWith(r, S_error) \/ StartsWith(r, S_ALARM)

\* C9: after an 'error...' or 'ALARM...' response the worker leaves
\* stop_event as it is and returns to its loop, where a queued command is
\* dequeued and handed to send_gcode.
C9_ErrorIsNotFatal ==
    [][/\ (wpc = "task_done" /\ NonFatal(response) /\ wpc' # wpc)
            => (stop_event' = stop_event /\ wpc' = "loop")
       /\ (wpc = "loop" /\ command_queue # <<>> /\ wpc' # wpc)
            => wpc' = "get"
       /\ (wpc = "get" /\ command_queue # <<>> /\ wpc' # wpc)
            => (wpc' = "send" /\ Len(passed') = Len(passed) + 1)]_vars

\* the worker got an error response while another command is queued
C9_Witness ==
    /\ wpc = "task_done"
    /\ StartsWith(response, S_error)
    /\ command_queue # <<>>
    /\ ~stop_event

\* C10: after send_gcode raised in the worker, the worker dequeues no
\* further command.
C10_StopsAfterFault == [][wraised > 0 => passed' = passed]_vars

\* C11: play_notes observes the stop flag at the top of each iteration of
\* its loop over the intervals: with stop_event set there, it does not go
\* on to plan, enqueue and pace the interval.
C11_StopObserved ==
    [][(/\ stop_event
        /\ mpc = "slice"
        /\ idx <= Len(Intervals(notes)))
            => (mpc' # "qwait" /\ enqueued' = enqueued)]_vars

\* C12: the wait of play_notes on a full command_queue always ends.  The
\* worker is the only consumer of the queue, so the wait can end only
\* while the worker has not left its loop.
C12_QueueWaitEnds ==
    (mpc \in {"qwait", "qsleep"} /\ ~QueueHasRoom(command_queue))
        => wpc # "exit"

\* C13: however playback ends once the port was opened and the worker
\* started, the port ends closed with stop_event set, and the worker then
\* eventually leaves its loop.
C13_ClosedAndWorkerExits ==
    /\ []((mpc = "done" /\ wpc # "none") => (~ser_open /\ stop_event))
    /\ ((mpc = "done" /\ wpc # "none") ~> (wpc = "exit"))

\* play_notes raised (the exchange of "$$" failed), the port was closed and
\* the worker has left its loop
C13_Witness ==
    /\ mpc = "done"
    /\ wpc = "exit"
    /\ plays = 1
    /\ faults = 1
    /\ wraised = 0
    /\ ~ser_open
    /\ stop_event

Boundaries ==
    {notes[k].start_time : k \in 1..Len(notes)}
        \cup {notes[k].start_time + notes[k].duration : k \in 1..Len(notes)}

\* C14: the slices play_notes builds are the consecutive pairs of the
\* sorted, de-duplicated start and end times of the notes: every slice has
\* end > start, consecutive slices share an endpoint, and the slices reach
\* from the least start to the greatest end with every boundary used.
C14_SlicesPartition ==
    LET intervals == Intervals(notes)
        n == Len(intervals)
    IN  /\ n = Cardinality(Boundaries) - 1
        /\ \A i \in 1..n : intervals[i][2] > intervals[i][1]
        /\ \A i \in 1..(n - 1) : intervals[i][2] = intervals[i + 1][1]
        /\ {intervals[i][1] : i \in 1..n} \cup {intervals[i][2] : i \in 1..n}
              = Boundaries
        /\ \A b \in Boundaries : intervals[1][1] <= b /\ b <= intervals[n][2]

\* two overlapping notes with a common end: three boundaries, two slices,
\* and play_notes is working on the second
C14_Witness ==
    /\ Len(notes) = 2
    /\ notes[1].start_time < notes[2].start_time
    /\ notes[1].start_time + notes[1].duration
          = notes[2].start_time + notes[2].duration
    /\ Len(Intervals(notes)) = 2
    /\ idx = 2
    /\ mpc = "qwait"

\* the note sounds during the whole of [s, e]
Covers(note, s, e) ==
    note.start_time <= s /\ note.start_time + note.duration >= e

\* the note sounds at no instant inside (s, e)
Apart(note, s, e) ==
    note.start_time + note.duration <= s \/ note.start_time >= e

\* C15: for every slice the active notes of play_notes are the notes that
\* overlap the slice, and the active set is constant over the slice: a
\* note sounds during the whole slice (and is active) or at no instant
\* inside it (and is not active).
C15_ActiveSetConstant ==
    \A i \in 1..Len(Intervals(notes)) :
        LET s == Intervals(notes)[i][1]
            e == Intervals(notes)[i][2]
        IN  /\ ActiveNotes(notes, s, e)
                  = SelectSeq(notes, LAMBDA n : Covers(n, s, e))
            /\ \A k \in 1..Len(notes) :
                  Covers(notes[k], s, e) \/ Apart(notes[k], s, e)

\* play_notes works on a slice during which one note is active, a note
\* that began before the slice, while another note has ended exactly at
\* the start of the slice
C15_Witness ==
    /\ mpc = "qwait"
    /\ idx > 1
    /\ LET s == Intervals(notes)[idx][1]
           e == Intervals(notes)[idx][2]
       IN  /\ \E k \in 1..Len(notes) :
                 notes[k].start_time + notes[k].duration = s
           /\ \E k \in 1..Len(notes) :
                 /\ IsActive(notes[k], s, e)
                 /\ notes[k].start_time < s
           /\ Len(ActiveNotes(notes, s, e)) = 1

\* some note sounds during slice i
SliceHasNotes(i) ==
    \E k \in 1..Len(notes) :
        /\ notes[k].start_time < Intervals(notes)[i][2]
        /\ notes[k].start_time + notes[k].duration > Intervals(notes)[i][1]

C17_NotBeforeStart ==
    mpc \in {"qwait", "qsleep", "sleep"} => now >= Intervals(notes)[idx][1]

\* the song begins after time 0: play_notes has slept until the start of
\* the first slice and is about to put its command
C17_Witness ==
    /\ mpc = "qwait"
    /\ idx = 1
    /\ Intervals(notes)[idx][1] > 0
    /\ now = Intervals(notes)[idx][1]
    /\ enqueued = <<>>

\* no axis of the slice has a nonzero adjusted distance
NothingMoves == \A a \in Keys(slice.moves) : slice.moves.d[a] = 0

\* C18: when no participating axis of a slice has a nonzero adjusted
\* distance, the combined feed rate is 0 and play_notes puts no command on
\* command_queue for the slice.
C18_NoCommandWhenIdle ==
    [][(mpc = "qwait" /\ NothingMoves)
            => (slice.feed = 0 /\ enqueued' = enqueued)]_vars

\* C19: the planner steps never fail: calculate_movement_time returns for
\* the distances and the combined feed rate of every slice whose command
\* play_notes has put.
C19_PlannerNeverFails ==
    mpc = "sleep" => ~MovementTimeRaises(slice.moves, slice.feed)

\* C20: the G1 command play_notes has put names an axis only if the
\* adjusted distance of that axis in the slice is not 0.
C20_OnlyMovingAxesNamed ==
    (mpc = "sleep" /\ enqueued # <<>>) =>
        \A i \in 1..Len(enqueued[Len(enqueued)].moves) :
            LET move == enqueued[Len(enqueued)].moves[i]
            IN  slice.moves.d[move.axis] # 0 /\ move.val # 0

\* the axes of the slice whose adjusted distance is not 0
MovingAxes == {a \in Keys(slice.moves) : slice.moves.d[a] # 0}

\* C21: the combined feed rate of a slice is at least the required feed
\* rate of every axis of the slice whose adjusted distance is not 0.
C21_CombinedCoversEachAxis ==
    mpc \in {"qwait", "qsleep", "sleep"} =>
        \A a \in MovingAxes : slice.feed >= slice.moves.req[a]

\* two axes move at different required rates, and the combined rate is
\* above both
C21_Witness ==
    /\ mpc = "qwait"
    /\ MovingAxes = Axes
    /\ slice.moves.req["X"] # slice.moves.req["Y"]
    /\ \A a \in Axes : slice.feed > slice.moves.req[a]

\* C22: every G1 command play_notes has put on command_queue carries a
\* feed rate F of at most max_feed_rate (8000 mm/min).
C22_FeedWithinMachineLimit ==
    \A k \in 1..Len(enqueued) : enqueued[k].F <= max_feed_rate

\* the last note of the list that sounds on axis a in slice idx: the note
\* whose feed rate and distance the slice keeps for the axis
LastNoteOn(a) ==
    LET active == ActiveNotes(notes, Intervals(notes)[idx][1],
                              Intervals(notes)[idx][2])
        k == CHOOSE j \in 1..Len(active) :
                /\ active[j].axis = a
                /\ \A l \in (j + 1)..Len(active) : active[l].axis # a
    IN  active[k]

\* frequency * 0.0375 * 60 in mm/min, written out from the claim
StepRate(frequency) == (frequency * 375 * 60) \div 10000

\* C23: the feed rate play_notes keeps for a note is the lesser of
\* frequency * 0.0375 * 60 and 8000 mm/min, never above 8000, and the raw
\* distance of the note in the slice is that rate times the slice duration
\* over 60 (distances are in 1/60 mm: rate * seconds).
C23_NoteRateAndDistance ==
    mpc \in {"qwait", "qsleep", "sleep"} =>
        \A a \in Keys(slice.moves) :
            LET rate == StepRate(LastNoteOn(a).frequency)
            IN  /\ slice.moves.req[a] = IF rate > 8000 THEN 8000 ELSE rate
                /\ slice.moves.req[a] <= 8000
                /\ slice.note_distance[a] = slice.moves.req[a] * slice.dur

\* a 4000 Hz note (9000 mm/min before the limit) in a slice of two seconds:
\* kept at 8000 mm/min, raw distance 8000 * 2 / 60 mm
C23_Witness ==
    /\ mpc = "qwait"
    /\ slice.dur = 2
    /\ LastNoteOn("X").frequency = 4000
    /\ slice.moves.req["X"] = 8000
    /\ slice.note_distance["X"] = 16000

\* the value the command carries for axis a, in 1/10000 mm
Emitted(a) ==
    LET k == CHOOSE i \in 1..Len(movement_command.moves) :
                movement_command.moves[i].axis = a
    IN  movement_command.moves[k].val

\* axis a ended the slice off both ends of its travel range
OffTheBounds(a) ==
    /\ axis_positions[a] > center_position[a] - max_travel[a]
    /\ axis_positions[a] < center_position[a] + max_travel[a]

\* C24: in a slice where exactly one axis has a nonzero adjusted distance,
\* the combined feed rate (the F of the command) is that axis's required
\* feed rate, and unless the move was cut at a bound the magnitude of the
\* emitted delta is rate * duration / 60 mm.
C24_SingleAxisRate ==
    (mpc \in {"qwait", "qsleep", "sleep"} /\ Cardinality(MovingAxes) = 1) =>
        \A a \in MovingAxes :
            /\ slice.feed = slice.moves.req[a]
            /\ movement_command.F = slice.moves.req[a]
            /\ OffTheBounds(a) =>
                  /\ Abs(slice.moves.d[a]) = slice.moves.req[a] * slice.dur
                  /\ Abs(Emitted(a)) * 60
                        = slice.moves.req[a] * slice.dur * 10000

\* a 440 Hz note on X alone for one second: 16.5 mm at F990
C24_Witness ==
    /\ mpc = "qwait"
    /\ MovingAxes = {"X"}
    /\ LastNoteOn("X").frequency = 440
    /\ slice.dur = 1
    /\ movement_command = [text |-> "G1",
                           moves |-> <<[axis |-> "X", val |-> 165000]>>,
                           F |-> 990]

\* x brought into [lo, hi]
ClampInto(x, lo, hi) == IF x > hi THEN hi ELSE IF x < lo THEN lo ELSE x

\* C25: for a current position inside the travel range and a signed desired
\* distance, adjust_movement_distance returns the distance d for which
\* position + d is the desired target clamped into
\* [center - max_travel, center + max_travel] = [50 mm, 150 mm].
C25_AdjustClamps ==
    slice.call = "adjust_movement_distance" =>
        axis_positions[slice.axis] + slice.result
            = ClampInto(axis_positions[slice.axis] + slice.arg,
                        Mm(100 - 50), Mm(100 + 50))

\* position 140 mm, desired +20 mm, returned 10 mm
C25_Witness ==
    /\ slice.call = "adjust_movement_distance"
    /\ axis_positions[slice.axis] = Mm(140)
    /\ slice.arg = Mm(20)
    /\ slice.result = Mm(10)

\* the direction the claim gives for position p and distance dist
DirectionRule(p, dist) ==
    IF p > Mm(100) THEN -1
    ELSE IF p < Mm(100) THEN 1
    ELSE IF p + dist <= Mm(100 + 50) THEN 1
    ELSE -1

\* C26: choose_direction returns -1 above the center, +1 below it, and at
\* the center +1 when position + distance is at most center + max_travel
\* and -1 otherwise; the call changes none of the machine's state.
C26_DirectionRule ==
    /\ [](slice.call = "choose_direction" =>
            slice.result = DirectionRule(axis_positions[slice.axis], slice.arg))
    /\ [][slice'.call = "choose_direction" =>
            UNCHANGED <<notes, axis_positions, idx, movement_command, now,
                        virtVars, workVars, ser_open, lock, command_queue,
                        stop_event, mpc, sg, plays, faults, enqueued, passed,
                        wire, answered, lastRaw, wraised>>]_vars

\* at the center with a distance beyond the upper end: -1
C26_Witness ==
    /\ slice.call = "choose_direction"
    /\ axis_positions[slice.axis] = Mm(100)
    /\ slice.arg > Mm(50)
    /\ slice.result = -1

\* C27: VirtualCNC.play_notes under the Absolute range policy, for an axis
\* inside [working_bound_1, working_bound_2]: while the proposed position
\* stays inside, the direction is kept and the distance is the raw one;
\* when it would leave, the distance is clipped so that the axis lands on
\* the bound it would pass and the direction is reversed.
C27_AbsoluteClipsAtBound ==
    [][(mpc = "note" /\ mpc' = "note_read") =>
          LET note == VActive[slice.k]
              axis == note.axis
              position == axis_positions[axis]
              raw == NoteFeedRate(note) * slice.dur
              proposed == position + raw * direction[axis]
              low == Mm(Bound1Mm)
              high == Mm(Bound2Mm)
          IN  (low <= position /\ position <= high) =>
                 /\ (low <= proposed /\ proposed <= high) =>
                       (/\ direction'[axis] = direction[axis]
                        /\ slice'.note_distance = raw * direction[axis])
                 /\ (proposed > high) =>
                       (/\ position + slice'.note_distance = high
                        /\ direction'[axis] = -direction[axis])
                 /\ (proposed < low) =>
                       (/\ position + slice'.note_distance = low
                        /\ direction'[axis] = -direction[axis])]_vars

\* C28: axis_positions is written by play_notes alone: no step of the
\* worker thread (serial_worker and the send_gcode it calls) changes it.
C28_WorkerLeavesPositions ==
    [][(axis_positions' # axis_positions) =>
          (/\ sg'["worker"] = sg["worker"]
           /\ wpc' = wpc)]_vars

\* C29: over the planning of one slice, play_notes moves the tracked
\* position of an axis by one update, the adjusted distance the command
\* carries for the axis, when the axis has an active note in the slice, and
\* leaves it alone otherwise.
C29_OneUpdatePerAxis ==
    [][(mpc = "slice" /\ mpc' = "qwait") =>
          \A a \in Axes :
              axis_positions'[a] =
                  IF a \in Keys(slice'.moves)
                  THEN axis_positions[a] + slice'.moves.d[a]
                  ELSE axis_positions[a]]_vars

\* C30: when a record of the note list is without axis, frequency,
\* start_time or duration, play_notes puts no movement command on
\* command_queue.
C30_RejectedBeforeScheduling ==
    (\E k \in 1..Len(notes) : Lacks(notes[k], NoteKeys)) => enqueued = <<>>

\* thread t writes the command of its send_gcode to the serial link
Writes(t) == sg[t].pc = "write" /\ sg'[t].pc = "read"

\* C31: "G91" is written once, by the main thread, with only the wake-up
\* and "$H" before it on the link; every other write comes after it, and a
\* G1 command is written only after the exchange of "G91" has completed
\* (send_gcode has returned and initialization is over).
C31_RelativeModeFirst ==
    [][/\ \A t \in Threads :
            Writes(t) =>
               LET text == sg[t].command.text
               IN  /\ (text = "G91") =>
                        (t = "main" /\ mpc = "g91" /\ wire.text \in {"wake", "$H"})
                   /\ (text = "$H") => (t = "main" /\ wire.text = "wake")
                   /\ (text = "$$") => (wire.text \in {"G91", "$$", "G1"})
                   /\ (text = "G1") =>
                        (/\ wire.text \in {"$$", "G1"}
                         /\ mpc \notin {"connect", "initialize", "homing", "g91"})
       /\ (mpc = "g91" /\ mpc' = "ready") =>
             (sg["main"].pc = "returned" /\ wire.text = "G91")]_vars

\* a G1 command was written to the link and answered by the controller
C31_Witness ==
    /\ wire.text = "G1"
    /\ answered >= 1
    /\ mpc \in {"sleep", "slice"}

\* C32: where total_distance equals 2 * d_accel, the triangular and the
\* trapezoidal formula of calculate_movement_time give the same value,
\* 2 * t_accel, and it is the value the function returns.
C32_ContinuousAtBoundary ==
    (/\ slice.call = "calculate_movement_time"
     /\ slice.total_distance = twice_d_accel(slice.feed_rate)) =>
        /\ triangular(slice.total_distance) = 2 * t_accel(slice.feed_rate)
        /\ trapezoidal(slice.total_distance, slice.feed_rate)
              = 2 * t_accel(slice.feed_rate)
        /\ slice.result = 2 * t_accel(slice.feed_rate)

\* 600 mm/min = 10 mm/s: t_accel is 10 ms, 2 * d_accel is 0.1 mm, and the
\* call at that distance has returned 20 ms
C32_Witness ==
    /\ slice.call = "calculate_movement_time"
    /\ slice.feed_rate = 600
    /\ slice.total_distance = 100
    /\ slice.result = 20

\* the delta of axis a in command cmd, in 1/10000 mm (0 when not named)
DeltaOf(cmd, a) ==
    IF \E i \in 1..Len(cmd.moves) : cmd.moves[i].axis = a
    THEN cmd.moves[CHOOSE i \in 1..Len(cmd.moves) : cmd.moves[i].axis = a].val
    ELSE 0

\* the sum of the deltas of axis a over the commands cmds
RECURSIVE DeltaSum(_, _)
DeltaSum(cmds, a) ==
    IF cmds = <<>> THEN 0
    ELSE DeltaOf(cmds[1], a) + DeltaSum(Tail(cmds), a)

\* where the commands put so far take axis a from the start, in 1/10000 mm
Commanded(a) == StartMm * 10000 + DeltaSum(enqueued, a)

\* C33: in play_notes of main.py, for each axis the start position plus
\* the sum of the axis's deltas over the commands put so far lies within
\* [50 mm, 150 mm].
C33_MainStaysInRange ==
    \A a \in Axes : 50 * 10000 <= Commanded(a) /\ Commanded(a) <= 150 * 10000

\* C34: in XCarve.play_notes, once the command of a slice is put, the
\* tracked axis_positions of every axis is the start position plus the sum
\* of the axis's deltas in the commands put so far, up to the rounding of
\* each delta to four decimals (half of 1/10000 mm per command).
C34_TrackedIsCommanded ==
    mpc \in {"sleep", "ready"} =>
        \A a \in Axes :
            Abs(axis_positions[a] * 10000 - Commanded(a) * SecondsPerMinute)
                <= (SecondsPerMinute \div 2) * Len(enqueued)

\* C35: after the window is closed mid-song (running cleared and
\* stop_event set while play_notes is in its loop), play_notes is never
\* left waiting for room in a full command_queue that the worker, having
\* returned, will not empty: a state from which play_notes cannot finish
\* and the first join of run cannot return.
C35_QuitEndsRun ==
    (/\ upc \in {"loop", "join_play"}
     /\ ~running
     /\ stop_event
     /\ mpc \in {"qwait", "qsleep"}
     /\ ~QueueHasRoom(command_queue)) => wpc # "exit"

\* the commands XCarve.play_notes puts for the note list ns, from interval
\* i on and position pos, after the commands out
RECURSIVE XCarveCommands(_, _, _, _)
XCarveCommands(pos, ns, i, out) ==
    IF i > Len(Intervals(ns)) THEN out
    ELSE LET p == PlanInterval(pos, ns, i)
         IN  IF SkipsInterval(p.dur, p.active, 0)
             THEN XCarveCommands(pos, ns, i + 1, out)
             ELSE IF p.raised THEN out
             ELSE IF MovementTimeRaises(p.moves, p.feed)
             THEN Append(out, p.cmd)
             ELSE XCarveCommands(p.pos, ns, i + 1, Append(out, p.cmd))

\* C36: for the same note list, the commands play_notes of main.py has put
\* are the commands XCarve.play_notes puts, in the same order: a prefix of
\* them while it runs, all of them when it has returned.
C36_SameCommands ==
    LET xcarve == XCarveCommands([a \in Axes |-> Mm(StartMm)], notes, 1, <<>>)
    IN  /\ IsPrefix(enqueued, xcarve)
        /\ mpc = "ready" => enqueued = xcarve

\* the number of intervals of the file that sound at time t, an interval
\* sounding from its start up to but not at its end
SoundingAt(file_intervals, t) ==
    Cardinality({k \in 1..Len(file_intervals) :
                    /\ file_intervals[k].start_time <= t
                    /\ t < file_intervals[k].end_time})

\* the number of places in the files where the interval with this id is
Places(output_files, id) ==
    Cardinality({<<f, k>> \in (1..Len(output_files)) \X (1..MaxIntervals) :
                    /\ k <= Len(output_files[f])
                    /\ output_files[f][k].id = id})

\* C37: when assign_intervals_to_files has gone through note_intervals,
\* every input interval is in exactly one output file (and nothing else
\* is), and in each file at most cnc_axes intervals sound at any instant.
C37_FilesPartitionAndFit ==
    (mpc \in {"assign", "split"} /\ idx > Len(notes)) =>
        /\ \A i \in 1..Len(notes) : Places(slice.output_files, i) = 1
        /\ \A f \in 1..Len(slice.output_files) :
              /\ Len(slice.output_files[f]) >= 1
              /\ \A k \in 1..Len(slice.output_files[f]) :
                    LET n == slice.output_files[f][k]
                    IN  /\ n.id \in 1..Len(notes)
                        /\ n.start_time = notes[n.id].start_time
                        /\ n.end_time = notes[n.id].end_time
              /\ \A t \in 0..(MaxStart + MaxDuration) :
                    SoundingAt(slice.output_files[f], t) <= cnc_axes

\* three notes sound at once, so that a second file is needed, and in the
\* first file an interval begins exactly where another one ends
C37_Witness ==
    /\ mpc = "assign"
    /\ idx > Len(notes)
    /\ Len(slice.output_files) = 2
    /\ \E j, k \in 1..Len(slice.output_files[1]) :
          slice.output_files[1][j].end_time = slice.output_files[1][k].start_time
    /\ \E t \in 0..(MaxStart + MaxDuration) :
          SoundingAt(slice.output_files[1], t) = 2

\* C38: after the axis assignment of the split files, two notes of one
\* output file that overlap in time are not on the same axis.
C38_OverlappingNotesOnDistinctAxes ==
    mpc = "split" =>
        \A f \in 1..Len(slice.output_files) :
            \A j, k \in 1..Len(slice.output_files[f]) :
                LET a == slice.output_files[f][j]
                    b == slice.output_files[f][k]
                IN  (/\ j # k
                     /\ a.start_time < b.end_time
                     /\ b.start_time < a.end_time) => a.axis # b.axis

====
